---- MODULE Spec2Model ----
(***************************************************************************)
(* A model of the autonomous VJ core of the chroma ("glsl") crate:         *)
(*   - MacroStateEngine (src/vj/macro_state_engine.rs), the director that  *)
(*     decides when to transition and what to transition to;               *)
(*   - PatternMorpher (src/vj/pattern_morpher.rs), the morph engine.       *)
(*                                                                         *)
(* Time.  An Instant is the number of milliseconds since the model's       *)
(* start; `now` is the monotonic clock and Elapsed(t) is t.elapsed().      *)
(* The several Instant::now() reads made inside one call are nanoseconds   *)
(* apart and are modelled as the same instant.                             *)
(*                                                                         *)
(* Numbers.  f32 quantities are modelled exactly, as integers in a stated  *)
(* unit: energies and band levels in tenths, morph factors in thousandths, *)
(* a random draw as the integer hash % 1000.                               *)
(***************************************************************************)
EXTENDS Integers, Sequences, FiniteSets, TLC

VARIABLES
    now,                    \* the monotonic clock, ms
    last_call,              \* the call that produced this state: [op, args, ret]
    \* ---- MacroStateEngine fields
    current_pattern,
    current_palette,
    current_color_mode,
    bpm,
    energy_level,           \* tenths
    mood,
    last_beat_time,
    beat_history,
    transition_in_progress,
    transition_start_time,
    morph_factor,           \* thousandths
    pattern_blacklist,      \* HashMap<String, Instant>: a function on the keys present
    palette_blacklist,
    transition_history,
    \* ---- PatternMorpher fields
    morphing,
    morph_start_time,
    morph_duration,         \* ms
    morph_progress,         \* thousandths
    source_pattern,
    target_pattern,
    source_params,
    target_params,
    current_morph_type,
    \* ---- AudioAnalyzer fields (f32 in thousandths)
    previous_bass,
    bass_history,
    drop_cooldown,          \* ms
    bass_peak,
    mid_peak,
    treble_peak,
    beat_pulse,
    energy_history,
    \* the delta_time handed to analyze since it last returned is_drop, ms, capped
    \* at the cooldown; -1 before the first drop
    since_drop,
    \* ---- BPMDetector fields
    audio_buffer,           \* one element per hop_size samples
    onset_history,
    last_onset_time,
    bpm_history,
    current_bpm,
    confidence,             \* thousandths
    tempo_candidates,
    \* ---- VJIntegration fields (energy and bands in tenths)
    autonomous_mode,
    vj_current_bpm,         \* VJIntegration::current_bpm
    current_energy,
    vj_beat_detected,       \* VJIntegration::beat_detected
    frequency_bands,        \* <<bass, mid, treble>>
    \* the instant of the first of the silent chunks update_audio has been given in a
    \* row, when the director's mood was Energetic before it; -1 otherwise
    silent_since,
    \* ---- AudioCapture (samples in tenths)
    capture_buffer,         \* AudioCapture::buffer, behind its mutex
    \* how many get_samples calls have returned the chunk the last callback wrote
    deliveries,
    \* ---- AutonomousStartup fields; its engine and its detector are the ones above
    current_phase,
    phase_start_time,
    phase_duration,
    audio_detected,
    bpm_confident,
    startup_complete

clockVars == <<now, last_call>>

morpherVars == <<morphing, morph_start_time, morph_duration, morph_progress,
                 source_pattern, target_pattern, source_params, target_params,
                 current_morph_type>>

engineVars == <<current_pattern, current_palette, current_color_mode, bpm,
                energy_level, mood, last_beat_time, beat_history,
                transition_in_progress, transition_start_time, morph_factor,
                pattern_blacklist, palette_blacklist, transition_history>>

analyzerVars == <<previous_bass, bass_history, drop_cooldown, bass_peak, mid_peak,
                  treble_peak, beat_pulse, energy_history>>

detectorVars == <<audio_buffer, onset_history, last_onset_time, bpm_history,
                  current_bpm, confidence, tempo_candidates>>

audioVars == <<analyzerVars, since_drop, detectorVars>>

integrationVars == <<autonomous_mode, vj_current_bpm, current_energy, vj_beat_detected,
                     frequency_bands>>

captureVars == <<capture_buffer, deliveries>>

startupVars == <<current_phase, phase_start_time, phase_duration, audio_detected,
                 bpm_confident, startup_complete>>

pipelineVars == <<integrationVars, silent_since, captureVars, startupVars>>

vars == <<clockVars, engineVars, morpherVars, audioVars, pipelineVars>>

(***************************************************************************)
(* Bounds of the model.                                                    *)
(***************************************************************************)
\* The director's update cadence: one clock step, in ms.
TickMs == 2000
\* The clock stops after this many steps.
MaxTicks == 24
\* A run is followed until this many transitions have been executed.
MaxTransitions == 2
\* The hash values the "random" candidate index is drawn from are 0..NumHash-1.
NumHash == 2

(***************************************************************************)
(* Program constants (MacroStateEngine::new).                              *)
(***************************************************************************)
TransitionDurationMs == 2000
BlacklistDurationMs == 30000
MinPatternDurationMs == 8000
MaxPatternDurationMs == 45000
\* transition_probability 0.3, against a draw of (hash % 1000) / 1000
TransitionProbabilityMilli == 300
BeatHistoryCap == 32
TransitionHistoryCap == 20
\* Duration::from_secs(4) of check_beat_transition, from_secs(10) of check_mood_transition
BeatWindowMs == 4000
MoodGateMs == 10000

(***************************************************************************)
(* Enumerations.  A value carries its type and its variant; the Debug      *)
(* formatting used for blacklist keys keeps the variant name only.         *)
(***************************************************************************)
Pat(n) == <<"PatternType", n>>
Pal(n) == <<"PaletteType", n>>

\* format!("{:?}", v) of a fieldless enum variant
DebugName(v) == v[2]

Elapsed(t) == now - t

\* A call, its arguments and what it returned
Call(op, args, ret) == [op |-> op, args |-> args, ret |-> ret]

Contains(seq, x) == \E i \in 1..Len(seq) : seq[i] = x

all_patterns ==
    << Pat("Plasma"), Pat("Waves"), Pat("Ripples"), Pat("Vortex"), Pat("Noise"),
       Pat("Geometric"), Pat("Voronoi"), Pat("Truchet"), Pat("Hexagonal"),
       Pat("Interference"), Pat("Fractal"), Pat("Glitch"), Pat("Spiral"),
       Pat("Rings"), Pat("Grid"), Pat("Diamonds"), Pat("Sphere"),
       Pat("Octgrams"), Pat("WarpedFbm") >>

all_palettes ==
    << Pal("Standard"), Pal("Blocks"), Pal("Circles"), Pal("Smooth"),
       Pal("Braille"), Pal("Geometric"), Pal("Mixed"), Pal("Dots"),
       Pal("Shades"), Pal("Lines"), Pal("Triangles"), Pal("Arrows"),
       Pal("Powerline"), Pal("BoxDraw"), Pal("Extended"), Pal("Simple") >>

ambient_patterns == << Pat("Waves"), Pat("Ripples"), Pat("Vortex"), Pat("Noise") >>
energetic_patterns == << Pat("Plasma"), Pat("Glitch"), Pat("Spiral"), Pat("Rings") >>
melodic_patterns == << Pat("Plasma"), Pat("Waves"), Pat("Geometric"), Pat("Hexagonal") >>
rhythmic_patterns == << Pat("Rings"), Pat("Grid"), Pat("Diamonds"), Pat("Octgrams") >>
chaotic_patterns == << Pat("Fractal"), Pat("Voronoi"), Pat("Truchet"), Pat("WarpedFbm") >>

(***************************************************************************)
(* detect_mood: first match wins.  Energies and bands are in tenths.       *)
(***************************************************************************)
\* detect_mood testing for Chaotic before Rhythmic
detect_mood_chaotic_first(b, energy, bass, treble) ==
    IF b > 140 /\ energy > 7 THEN "Energetic"
    ELSE IF b < 80 /\ energy < 3 THEN "Ambient"
    ELSE IF treble > 7 /\ energy > 5 THEN "Chaotic"
    ELSE IF bass > 6 /\ b > 100 /\ b < 140 THEN "Rhythmic"
    ELSE "Melodic"

detect_mood(b, energy, bass, treble) ==
    IF b > 140 /\ energy > 7 THEN "Energetic"
    ELSE IF b < 80 /\ energy < 3 THEN "Ambient"
    ELSE IF bass > 6 /\ b > 100 /\ b < 140 THEN "Rhythmic"
    ELSE IF treble > 7 /\ energy > 5 THEN "Chaotic"
    ELSE "Melodic"

(***************************************************************************)
(* The transition triggers.  Each reads the engine as it is after the      *)
(* update has stored bpm, energy and mood and recorded the beat, so the    *)
(* values read are passed in.                                              *)
(***************************************************************************)
\* time_since_last > (bpm / 60) * 8 * 0.8 seconds, i.e. ms * 600 > bpm * 64 * 1000
check_beat_transition(bh, b) ==
    IF Len(bh) < 4 THEN FALSE
    ELSE LET recent_beats == SelectSeq(bh, LAMBDA t : Elapsed(t) < BeatWindowMs)
         IN  IF Len(recent_beats) >= 8
             THEN Elapsed(recent_beats[Len(recent_beats)]) * 600 > b * 64 * 1000
             ELSE FALSE

check_energy_transition(energy, m) ==
    IF energy > 8 THEN TRUE
    ELSE IF energy < 2 /\ m # "Ambient" THEN TRUE
    ELSE FALSE

\* check_mood_transition without the 10 s gate
check_mood_transition_no_gate(th, energy, m) ==
    CASE m = "Chaotic" -> TRUE
      [] m = "Energetic" -> energy > 7
      [] m = "Ambient" -> energy < 3
      [] OTHER -> FALSE

check_mood_transition(th, energy, m) ==
    IF th # <<>> /\ Elapsed(th[Len(th)].timestamp) < MoodGateMs THEN FALSE
    ELSE CASE m = "Chaotic" -> TRUE
           [] m = "Energetic" -> energy > 7
           [] m = "Ambient" -> energy < 3
           [] OTHER -> FALSE

\* rnd is hash % 1000
check_random_transition(rnd) == rnd < TransitionProbabilityMilli

\* should_transition without the min_pattern_duration refusal
should_transition_no_min(tip, tst, bh, b, energy, m, th, rnd) ==
    IF tip THEN FALSE
    ELSE IF Elapsed(tst) > MaxPatternDurationMs THEN TRUE
    ELSE \/ check_beat_transition(bh, b)
         \/ check_energy_transition(energy, m)
         \/ check_mood_transition(th, energy, m)
         \/ check_random_transition(rnd)

\* should_transition without the max_pattern_duration force
should_transition_no_max(tip, tst, bh, b, energy, m, th, rnd) ==
    IF tip THEN FALSE
    ELSE IF Elapsed(tst) < MinPatternDurationMs THEN FALSE
    ELSE \/ check_beat_transition(bh, b)
         \/ check_energy_transition(energy, m)
         \/ check_mood_transition(th, energy, m)
         \/ check_random_transition(rnd)

should_transition(tip, tst, bh, b, energy, m, th, rnd) ==
    IF tip THEN FALSE
    ELSE IF Elapsed(tst) > MaxPatternDurationMs THEN TRUE
    ELSE IF Elapsed(tst) < MinPatternDurationMs THEN FALSE
    ELSE \/ check_beat_transition(bh, b)
         \/ check_energy_transition(energy, m)
         \/ check_mood_transition(th, energy, m)
         \/ check_random_transition(rnd)

determine_transition_trigger(bh, b, energy, m, th) ==
    IF check_beat_transition(bh, b) THEN "BeatDetected"
    ELSE IF check_energy_transition(energy, m) THEN "EnergyChange"
    ELSE IF check_mood_transition(th, energy, m) THEN "MoodChange"
    ELSE "Random"

\* is_blacklisted with entries that never expire
is_blacklisted_forever(name) ==
    name \in DOMAIN pattern_blacklist

(***************************************************************************)
(* The blacklist.                                                          *)
(***************************************************************************)
\* is_blacklisted taking a name without an entry for a blocked one
is_blacklisted_unless_known(name) ==
    IF name \in DOMAIN pattern_blacklist
    THEN Elapsed(pattern_blacklist[name]) < BlacklistDurationMs
    ELSE TRUE

\* is_blacklisted reads pattern_blacklist, whatever the name is the name of
is_blacklisted(name) ==
    IF name \in DOMAIN pattern_blacklist
    THEN Elapsed(pattern_blacklist[name]) < BlacklistDurationMs
    ELSE FALSE

\* HashMap::insert
MapInsert(map, key, value) ==
    [k \in DOMAIN map \cup {key} |-> IF k = key THEN value ELSE map[k]]

\* HashMap::retain with the closure of add_to_blacklist, |_, &mut time|
\* now.elapsed() < blacklist_duration: `now` there is the Instant just taken, and the
\* entry's own time is not read
BlacklistRetain(map, stamp) ==
    LET kept == {k \in DOMAIN map : Elapsed(stamp) < BlacklistDurationMs}
    IN  [k \in kept |-> map[k]]

\* add_to_blacklist as called by initiate_transition: pattern and palette are the
\* engine's current_pattern and current_palette at the time of the call
add_to_blacklist_patterns(bl, pattern) ==
    LET inserted == MapInsert(bl, DebugName(pattern), now)
    IN  BlacklistRetain(inserted, now)

add_to_blacklist_palettes(bl, palette) ==
    LET inserted == MapInsert(bl, DebugName(palette), now)
    IN  BlacklistRetain(inserted, now)

(***************************************************************************)
(* Selection.                                                              *)
(***************************************************************************)
\* What a call that panicked has in place of a value
Panic == <<"panic">>

\* get_available_patterns without the blacklist filter
get_available_patterns_unfiltered == all_patterns

get_available_patterns ==
    SelectSeq(all_patterns, LAMBDA p : ~is_blacklisted(DebugName(p)))

get_available_palettes ==
    SelectSeq(all_palettes, LAMBDA p : ~is_blacklisted(DebugName(p)))

\* select_from_preferred drawing from all the available patterns
select_from_preferred_any(available, preferred, h) ==
    available[(h % Len(available)) + 1]

\* h is the hash the index is taken from; `% candidates.len()` panics on an empty list
select_from_preferred(available, preferred, h) ==
    LET inter == SelectSeq(available, LAMBDA p : Contains(preferred, p))
        candidates == IF inter = <<>> THEN available ELSE inter
    IN  IF candidates = <<>> THEN Panic ELSE candidates[(h % Len(candidates)) + 1]

preferred_patterns(m) ==
    CASE m = "Ambient" -> ambient_patterns
      [] m = "Energetic" -> energetic_patterns
      [] m = "Melodic" -> melodic_patterns
      [] m = "Rhythmic" -> rhythmic_patterns
      [] m = "Chaotic" -> chaotic_patterns

select_next_pattern(m, h) ==
    select_from_preferred(get_available_patterns, preferred_patterns(m), h)

select_next_palette(m) ==
    LET available_palettes == get_available_palettes
        selected == CASE m = "Ambient" -> Pal("Smooth")
                      [] m = "Energetic" -> Pal("Blocks")
                      [] m = "Melodic" -> Pal("Standard")
                      [] m = "Rhythmic" -> Pal("Geometric")
                      [] m = "Chaotic" -> Pal("Braille")
    IN  IF Contains(available_palettes, selected) THEN selected
        ELSE IF available_palettes = <<>> THEN Panic     \* available_palettes[0]
        ELSE available_palettes[1]

select_next_color_mode(m) ==
    CASE m = "Ambient" -> <<"ColorMode", "Cool">>
      [] m = "Energetic" -> <<"ColorMode", "Neon">>
      [] m = "Melodic" -> <<"ColorMode", "Rainbow">>
      [] m = "Rhythmic" -> <<"ColorMode", "Cyberpunk">>
      [] m = "Chaotic" -> <<"ColorMode", "Warped">>

(***************************************************************************)
(* ease_in_out_cubic(t), t and the result in thousandths, for 0 <= t <= 1. *)
(* t < 0.5: 4 t^3;  otherwise f = 2t - 2 and 1 + f^3 / 2.                  *)
(***************************************************************************)
ease_in_out_cubic(t) ==
    IF t < 500
    THEN (4 * t * t * t) \div 1000000
    ELSE LET g == 2000 - 2 * t
         IN  1000 - ((g * g * g) \div 2000000)

(***************************************************************************)
(* MacroStateEngine::new                                                   *)
(***************************************************************************)
EngineInit ==
    /\ current_pattern = Pat("Plasma")
    /\ current_palette = Pal("Standard")
    /\ current_color_mode = <<"ColorMode", "Rainbow">>
    /\ bpm = 120
    /\ energy_level = 5
    /\ mood = "Melodic"
    /\ last_beat_time = 0
    /\ beat_history = <<>>
    /\ transition_in_progress = FALSE
    /\ transition_start_time = 0
    /\ morph_factor = 0
    /\ pattern_blacklist = <<>>
    /\ palette_blacklist = <<>>
    /\ transition_history = <<>>

\* Track beats: push the beat, keep the 32 most recent
track_beats(beat_detected) ==
    LET pushed == IF beat_detected THEN Append(beat_history, now) ELSE beat_history
    IN  IF Len(pushed) > BeatHistoryCap THEN Tail(pushed) ELSE pushed

\* update_transition_state completing only after more than transition_duration
update_transition_state_late ==
    IF ~transition_in_progress
    THEN [transition_in_progress |-> FALSE, morph_factor |-> 0]
    ELSE IF Elapsed(transition_start_time) > TransitionDurationMs
         THEN [transition_in_progress |-> FALSE, morph_factor |-> 1000]
         ELSE [transition_in_progress |-> TRUE,
               morph_factor |-> ease_in_out_cubic((1000 * Elapsed(transition_start_time))
                                                  \div TransitionDurationMs)]

\* update_transition_state: the transition_in_progress and morph_factor it leaves
update_transition_state ==
    IF ~transition_in_progress
    THEN [transition_in_progress |-> FALSE, morph_factor |-> 0]
    ELSE IF Elapsed(transition_start_time) >= TransitionDurationMs
         THEN [transition_in_progress |-> FALSE, morph_factor |-> 1000]
         ELSE [transition_in_progress |-> TRUE,
               morph_factor |-> ease_in_out_cubic((1000 * Elapsed(transition_start_time))
                                                  \div TransitionDurationMs)]

\* The record pushed, with the record before it dropped once the log is full
push_transition_keep_oldest(th, transition) ==
    IF Len(th) >= TransitionHistoryCap
    THEN Append(SubSeq(th, 1, TransitionHistoryCap - 1), transition)
    ELSE Append(th, transition)

\* transition_history.push_back(transition), pop_front beyond 20
push_transition(th, transition) ==
    LET pushed == Append(th, transition)
    IN  IF Len(pushed) > TransitionHistoryCap THEN Tail(pushed) ELSE pushed

(***************************************************************************)
(* update_audio_analysis(bpm, energy_level, beat_detected, (bass, _, treble)) *)
(* with rnd the draw of check_random_transition and h the hash of          *)
(* select_from_preferred.  The whole handler: update_transition_state,     *)
(* should_transition and, when it says so, initiate_transition.            *)
(***************************************************************************)
update_audio_analysis(b, energy, beat_detected, bass, treble, rnd, h) ==
    LET m == detect_mood(b, energy, bass, treble)
        bh == track_beats(beat_detected)
        phase == update_transition_state
    IN  /\ bpm' = b
        /\ energy_level' = energy
        /\ mood' = m
        /\ last_beat_time' = IF beat_detected THEN now ELSE last_beat_time
        /\ beat_history' = bh
        /\ morph_factor' = phase.morph_factor
        /\ IF should_transition(phase.transition_in_progress, transition_start_time, bh, b,
                                energy, m, transition_history, rnd)
           THEN \* initiate_transition
                \E new_pattern \in {select_next_pattern(m, h)},
                   new_palette \in {select_next_palette(m)},
                   new_color_mode \in {select_next_color_mode(m)},
                   trigger \in {determine_transition_trigger(bh, b, energy, m,
                                                            transition_history)} :
                  /\ transition_in_progress' = TRUE
                  /\ transition_start_time' = now
                  /\ IF new_pattern = Panic \/ new_palette = Panic
                     THEN \* the selection panicked: nothing after it is executed
                          UNCHANGED <<transition_history, current_pattern, current_palette,
                                      current_color_mode, pattern_blacklist,
                                      palette_blacklist>>
                     ELSE /\ transition_history' =
                                push_transition(transition_history,
                                                [from_pattern |-> current_pattern,
                                                 to_pattern |-> new_pattern,
                                                 from_palette |-> current_palette,
                                                 to_palette |-> new_palette,
                                                 trigger |-> trigger,
                                                 timestamp |-> now])
                          /\ current_pattern' = new_pattern
                          /\ current_palette' = new_palette
                          /\ current_color_mode' = new_color_mode
                          \* add_to_blacklist, after current_pattern and current_palette
                          \* have been updated
                          /\ pattern_blacklist' =
                                add_to_blacklist_patterns(pattern_blacklist, new_pattern)
                          /\ palette_blacklist' =
                                add_to_blacklist_palettes(palette_blacklist, new_palette)
           ELSE /\ transition_in_progress' = phase.transition_in_progress
                /\ UNCHANGED <<transition_start_time, transition_history, current_pattern,
                               current_palette, current_color_mode, pattern_blacklist,
                               palette_blacklist>>

\* What the call returns: Ok(()), unless the selection of initiate_transition panics
update_audio_analysis_ret(b, energy, beat_detected, bass, treble, rnd, h) ==
    LET m == detect_mood(b, energy, bass, treble)
    IN  IF /\ should_transition(update_transition_state.transition_in_progress,
                                transition_start_time, track_beats(beat_detected), b,
                                energy, m, transition_history, rnd)
           /\ (select_next_pattern(m, h) = Panic \/ select_next_palette(m) = Panic)
        THEN "panic"
        ELSE "Ok"

(***************************************************************************)
(* PatternMorpher (src/vj/pattern_morpher.rs).                             *)
(*                                                                         *)
(* ShaderParams: the eleven f32 fields get_morphed_params interpolates,    *)
(* and of the fields it does not touch color_shift, gamma, octaves and     *)
(* pattern_type.  f32 fields are in thousandths (hue: thousandths of a     *)
(* degree).                                                                *)
(***************************************************************************)
MorphTypes == {"Linear", "Smooth", "BeatSync", "EnergyDriven", "TempoSync"}

\* ShaderParams::default()
DefaultParams ==
    [frequency |-> 10000, amplitude |-> 1000, speed |-> 500, color_shift |-> 0,
     scale |-> 1000, octaves |-> 4, noise_strength |-> 150, distort_amplitude |-> 500,
     brightness |-> 1200, contrast |-> 1000, hue |-> 0, saturation |-> 1000,
     gamma |-> 1000, vignette |-> 300, pattern_type |-> Pat("Plasma")]

\* Option<T>
Some(v) == <<"Some", v>>
None == <<"None">>
UnwrapOr(opt, default) == IF opt[1] = "Some" THEN opt[2] ELSE default

\* f32::clamp
Clamp(x, lo, hi) == IF x < lo THEN lo ELSE IF x > hi THEN hi ELSE x

\* smooth_easing(t), t and the result in thousandths; t may exceed 1
smooth_easing(t) ==
    IF t < 500
    THEN (4 * t * t * t) \div 1000000
    ELSE LET f == 2 * t - 2000
         IN  1000 + (((f * f) \div 1000) * f) \div 2000

\* base_progress * 1.2 on a beat, * 0.8 otherwise
beat_sync_morphing(base_progress, beat_detected) ==
    IF beat_detected THEN (base_progress * 12) \div 10
    ELSE (base_progress * 8) \div 10

\* energy_driven_morphing with energy_factor = energy alone
energy_driven_morphing_no_floor(base_progress, energy) ==
    (base_progress * energy) \div 10

\* energy_factor = 0.5 + energy; energy in tenths
energy_driven_morphing(base_progress, energy) ==
    (base_progress * (5 + energy)) \div 10

\* tempo_factor = (bpm / 120).clamp(0.5, 2.0)
tempo_sync_morphing(base_progress, b) ==
    (base_progress * Clamp((b * 1000) \div 120, 500, 2000)) \div 1000

\* from + (to - from) * t, t in thousandths
interpolate(from, to, t) == from + ((to - from) * t) \div 1000

\* interpolate_hue without the wraparound
interpolate_hue_no_wrap(from, to, t) == from + ((to - from) * t) \div 1000

\* interpolate_hue, hues in thousandths of a degree, t in thousandths
interpolate_hue(from, to, t) ==
    LET diff == to - from
    IN  IF diff > 180000 THEN from + ((diff - 360000) * t) \div 1000
        ELSE IF diff < -180000 THEN from + ((diff + 360000) * t) \div 1000
        ELSE from + (diff * t) \div 1000

\* PatternMorpher::new
MorpherInit ==
    /\ morphing = FALSE
    /\ morph_start_time = 0
    /\ morph_duration = 2000
    /\ morph_progress = 0
    /\ source_pattern = Pat("Plasma")
    /\ target_pattern = Pat("Plasma")
    /\ source_params = DefaultParams
    /\ target_params = DefaultParams
    /\ current_morph_type = "Smooth"

\* start_morph; the interpolation cache it refills is read by no caller
start_morph(from_pattern, to_pattern, from_params, to_params, morph_type, duration) ==
    /\ morphing' = TRUE
    /\ morph_start_time' = now
    /\ morph_duration' = UnwrapOr(duration, 2000)
    /\ morph_progress' = 0
    /\ source_pattern' = from_pattern
    /\ target_pattern' = to_pattern
    /\ source_params' = from_params
    /\ target_params' = to_params
    /\ current_morph_type' = UnwrapOr(morph_type, "Smooth")

\* The progress update_morph computes while morphing; energy in tenths
morph_progress_now(b, energy, beat_detected) ==
    LET base_progress == (Elapsed(morph_start_time) * 1000) \div morph_duration
        adjusted_progress ==
            CASE current_morph_type = "Linear" -> base_progress
              [] current_morph_type = "Smooth" -> smooth_easing(base_progress)
              [] current_morph_type = "BeatSync" ->
                     beat_sync_morphing(base_progress, beat_detected)
              [] current_morph_type = "EnergyDriven" ->
                     energy_driven_morphing(base_progress, energy)
              [] current_morph_type = "TempoSync" ->
                     tempo_sync_morphing(base_progress, b)
    IN  Clamp(adjusted_progress, 0, 1000)

\* update_morph(bpm, energy, beat_detected) -> progress: the value returned
update_morph_ret(b, energy, beat_detected) ==
    IF ~morphing THEN 1000 ELSE morph_progress_now(b, energy, beat_detected)

\* update_morph with the completion test morph_progress > 1.0
update_morph_strict(b, energy, beat_detected) ==
    IF ~morphing
    THEN UNCHANGED morpherVars
    ELSE \E progress \in {morph_progress_now(b, energy, beat_detected)} :
            /\ morph_progress' = progress
            /\ morphing' = (progress <= 1000)
            /\ UNCHANGED <<morph_start_time, morph_duration, source_pattern,
                           target_pattern, source_params, target_params,
                           current_morph_type>>

\* update_morph: what it does to the morpher
update_morph(b, energy, beat_detected) ==
    IF ~morphing
    THEN UNCHANGED morpherVars
    ELSE \E progress \in {morph_progress_now(b, energy, beat_detected)} :
            /\ morph_progress' = progress
            \* morph_progress >= 1.0: complete
            /\ morphing' = (progress < 1000)
            /\ UNCHANGED <<morph_start_time, morph_duration, source_pattern,
                           target_pattern, source_params, target_params,
                           current_morph_type>>

\* The interpolation of get_morphed_params: source_params with eleven fields replaced
morphed_params ==
    LET lerp(f) == interpolate(source_params[f], target_params[f], morph_progress)
    IN  [source_params EXCEPT
            !.frequency = lerp("frequency"),
            !.amplitude = lerp("amplitude"),
            !.speed = lerp("speed"),
            !.scale = lerp("scale"),
            !.brightness = lerp("brightness"),
            !.contrast = lerp("contrast"),
            !.saturation = lerp("saturation"),
            !.hue = interpolate_hue(source_params.hue, target_params.hue, morph_progress),
            !.noise_strength = lerp("noise_strength"),
            !.distort_amplitude = lerp("distort_amplitude"),
            !.vignette = lerp("vignette")]

\* get_morphed_params without the early return
get_morphed_params_no_passthrough == morphed_params

\* get_morphed_params(&self) -> ShaderParams
get_morphed_params ==
    IF ~morphing THEN target_params ELSE morphed_params

\* stop_morphing
stop_morphing ==
    /\ morphing' = FALSE
    /\ morph_progress' = 1000
    /\ UNCHANGED <<morph_start_time, morph_duration, source_pattern, target_pattern,
                   source_params, target_params, current_morph_type>>

\* set_morph_duration
set_morph_duration(duration) ==
    /\ morph_duration' = duration
    /\ UNCHANGED <<morphing, morph_start_time, morph_progress, source_pattern,
                   target_pattern, source_params, target_params, current_morph_type>>

\* set_morph_type
set_morph_type(morph_type) ==
    /\ current_morph_type' = morph_type
    /\ UNCHANGED <<morphing, morph_start_time, morph_duration, morph_progress,
                   source_pattern, target_pattern, source_params, target_params>>

(***************************************************************************)
(* AudioAnalyzer (src/audio/analyzer.rs), as built with the "audio"        *)
(* feature.  f32 values are in thousandths, delta_time and drop_cooldown   *)
(* in ms.  A chunk of samples is a record: its length, and what the FFT    *)
(* and get_band_energy make of it, the three raw band energies, each       *)
(* already cut to [0, 1] by get_band_energy's min(1.0).                    *)
(***************************************************************************)
ATTACK_RATE == 980
RELEASE_RATE == 850
EnergyHistoryCap == 60
BassHistoryCap == 30
\* self.drop_cooldown = 1.0
DropCooldownMs == 1000

Min(a, b) == IF a < b THEN a ELSE b

RECURSIVE SumSeq(_)
SumSeq(seq) == IF seq = <<>> THEN 0 ELSE Head(seq) + SumSeq(Tail(seq))

\* AudioFeatures::default()
AudioFeaturesDefault ==
    [bass |-> 0, mid |-> 0, treble |-> 0, overall |-> 0, beat_strength |-> 0,
     is_drop |-> FALSE]

\* get_band_energy over the spectrum of the chunk; a zero-padded empty buffer has
\* no energy in any band
get_band_energy(samples, band) == IF samples.len = 0 THEN 0 ELSE samples[band]

apply_envelope(current_peak, new_value, attack_rate, release_rate) ==
    IF new_value > current_peak
    THEN (current_peak * attack_rate + new_value * (1000 - attack_rate)) \div 1000
    ELSE (current_peak * release_rate) \div 1000

\* f32::powf(0.7) on thousandths, by linear interpolation between these points of
\* the curve; the ratios of apply_dynamics do not exceed 100
Pow07Knots ==
    << <<0, 0>>, <<50, 123>>, <<100, 200>>, <<250, 379>>, <<500, 616>>, <<850, 892>>,
       <<1000, 1000>>, <<1500, 1328>>, <<2000, 1625>>, <<3000, 2158>>, <<5000, 3085>>,
       <<10000, 5012>>, <<20000, 8142>>, <<50000, 15462>>, <<100000, 25119>> >>

powf07(r) ==
    IF r >= Pow07Knots[Len(Pow07Knots)][1] THEN Pow07Knots[Len(Pow07Knots)][2]
    ELSE LET k == CHOOSE i \in 1..(Len(Pow07Knots) - 1) :
                      Pow07Knots[i][1] <= r /\ r < Pow07Knots[i + 1][1]
             lo == Pow07Knots[k]
             hi == Pow07Knots[k + 1]
         IN  lo[2] + ((r - lo[1]) * (hi[2] - lo[2])) \div (hi[1] - lo[1])

apply_dynamics(raw_value, peak) ==
    IF peak < 10 THEN raw_value
    ELSE LET ratio == (raw_value * 1000) \div peak
             expanded == powf07(ratio)
             transient_boost == IF ratio > 850 THEN 1000 + (ratio - 850) * 2 ELSE 1000
         IN  Min((((expanded * peak) \div 1000) * transient_boost) \div 1000, 1000)

\* f32::sqrt of a value in millionths, in thousandths: the largest s with s * s <= v
RECURSIVE SqrtBetween(_, _, _)
SqrtBetween(v, lo, hi) ==
    IF lo >= hi THEN lo
    ELSE LET m == (lo + hi + 1) \div 2
         IN  IF m * m <= v THEN SqrtBetween(v, m, hi) ELSE SqrtBetween(v, lo, m - 1)

sqrt(v) == SqrtBetween(v, 0, 8000)

\* calculate_energy_variance, reading the history eh
calculate_energy_variance(eh) ==
    IF Len(eh) < 10 THEN 0
    ELSE LET mean == SumSeq(eh) \div Len(eh)
             squares == [i \in 1..Len(eh) |-> (eh[i] - mean) * (eh[i] - mean)]
             variance == SumSeq(squares) \div Len(eh)
         IN  Min(sqrt(variance), 1000)

\* AudioAnalyzer::new
AnalyzerInit ==
    /\ previous_bass = 0
    /\ bass_history = <<>>
    /\ drop_cooldown = 0
    /\ bass_peak = 0
    /\ mid_peak = 0
    /\ treble_peak = 0
    /\ beat_pulse = 0
    /\ energy_history = <<>>

\* The drop detection without the cooldown
detect_drop_no_cooldown(drop_detected, delta_time) ==
    [is_drop |-> drop_detected, drop_cooldown |-> drop_cooldown]

\* let is_drop = if self.drop_cooldown <= 0.0 { .. } else { .. }: the value of
\* is_drop and the cooldown left behind
detect_drop(drop_detected, delta_time) ==
    IF drop_cooldown <= 0
    THEN [is_drop |-> drop_detected,
          drop_cooldown |-> IF drop_detected THEN DropCooldownMs ELSE drop_cooldown]
    ELSE [is_drop |-> FALSE, drop_cooldown |-> drop_cooldown - delta_time]

\* analyze_with_fft: the features it returns and the fields it leaves behind
analyze_with_fft(samples, delta_time) ==
    LET bass_raw == get_band_energy(samples, "bass")
        mid_raw == get_band_energy(samples, "mid")
        treble_raw == get_band_energy(samples, "treble")
        new_bass_peak == apply_envelope(bass_peak, bass_raw, ATTACK_RATE, RELEASE_RATE)
        new_mid_peak == apply_envelope(mid_peak, mid_raw, ATTACK_RATE, RELEASE_RATE)
        new_treble_peak == apply_envelope(treble_peak, treble_raw, ATTACK_RATE, RELEASE_RATE)
        bass == apply_dynamics(bass_raw, new_bass_peak)
        mid == apply_dynamics(mid_raw, new_mid_peak)
        treble == apply_dynamics(treble_raw, new_treble_peak)
        overall == (bass + mid + treble) \div 3
        eh1 == Append(energy_history, overall)
        eh == IF Len(eh1) > EnergyHistoryCap THEN Tail(eh1) ELSE eh1
        energy_variance == calculate_energy_variance(eh)
        bass_diff == bass_raw - previous_bass
        beat0 == Clamp(bass_diff * 10, 0, 1000)
        pulse0 == IF beat0 > 300 THEN 1000 ELSE beat_pulse
        pulse == (pulse0 * 850) \div 1000
        beat_strength == Min(beat0 + pulse \div 2, 1000)
        bh1 == Append(bass_history, bass_raw)
        bh == IF Len(bh1) > BassHistoryCap THEN Tail(bh1) ELSE bh1
        \* bass_raw > avg_bass * 2.0 with avg_bass = sum / len
        drop_detected == bass_raw * Len(bh) > 2 * SumSeq(bh) /\ bass_diff > 100
        drop == detect_drop(drop_detected, delta_time)
        variance_multiplier == 1000 + energy_variance \div 2
    IN  [features |->
            [bass |-> (bass * variance_multiplier) \div 1000,
             mid |-> (mid * variance_multiplier) \div 1000,
             treble |-> (treble * variance_multiplier) \div 1000,
             overall |-> (overall * variance_multiplier) \div 1000,
             beat_strength |-> beat_strength,
             is_drop |-> drop.is_drop],
         previous_bass |-> bass_raw,
         bass_history |-> bh,
         drop_cooldown |-> drop.drop_cooldown,
         bass_peak |-> new_bass_peak,
         mid_peak |-> new_mid_peak,
         treble_peak |-> new_treble_peak,
         beat_pulse |-> pulse,
         energy_history |-> eh]

\* analyze without the samples.is_empty() return
analyze_ret_no_guard(samples, delta_time) ==
    analyze_with_fft(samples, delta_time).features

\* analyze(samples, delta_time) -> AudioFeatures: the value returned
analyze_ret(samples, delta_time) ==
    IF samples.len = 0 THEN AudioFeaturesDefault
    ELSE analyze_with_fft(samples, delta_time).features

\* analyze running the extractor on an empty chunk as on any other
analyze_no_guard(samples, delta_time) ==
    \E o \in {analyze_with_fft(samples, delta_time)} :
        /\ previous_bass' = o.previous_bass
        /\ bass_history' = o.bass_history
        /\ drop_cooldown' = o.drop_cooldown
        /\ bass_peak' = o.bass_peak
        /\ mid_peak' = o.mid_peak
        /\ treble_peak' = o.treble_peak
        /\ beat_pulse' = o.beat_pulse
        /\ energy_history' = o.energy_history

\* analyze: what it does to the analyzer
analyze(samples, delta_time) ==
    IF samples.len = 0 THEN UNCHANGED analyzerVars
    ELSE \E o \in {analyze_with_fft(samples, delta_time)} :
            /\ previous_bass' = o.previous_bass
            /\ bass_history' = o.bass_history
            /\ drop_cooldown' = o.drop_cooldown
            /\ bass_peak' = o.bass_peak
            /\ mid_peak' = o.mid_peak
            /\ treble_peak' = o.treble_peak
            /\ beat_pulse' = o.beat_pulse
            /\ energy_history' = o.energy_history

(***************************************************************************)
(* BPMDetector (src/vj/bpm_detector.rs).                                   *)
(*                                                                         *)
(* Audio is carried in blocks of hop_size samples.  A block stands for the *)
(* spectral flux, in tenths, of the window_size-sample window that starts  *)
(* with it, so calculate_spectral_flux reads its frames off the buffer.    *)
(* An Instant is a pair <<t, i>>: t ms on the clock less i / sample_rate   *)
(* seconds, which is how detect_onsets stamps the peak of frame i.  bpm    *)
(* candidates are in tenths, intervals in microseconds, confidence in      *)
(* thousandths.                                                            *)
(***************************************************************************)
\* The sample rate the detector is built for.
SampleRate == 20480

onset_threshold == 3
tempo_stability_threshold == 700
min_bpm == 60
max_bpm == 200
\* analysis_window: Duration::from_secs(8)
analysis_window == 8000
window_size == 512
hop_size == 256
BpmHistoryCap == 16
\* let tolerance = 5.0, in tenths
tolerance == 50
\* if self.onset_history.len() >= 4
MinOnsets == 4

\* (sample_rate * 0.1) as usize
buffer_size == SampleRate \div 10

\* The blocks the ring buffer holds
BufferBlocks == buffer_size \div hop_size

Last(seq) == seq[Len(seq)]

\* Instant < Instant
Earlier(a, b) == a[1] < b[1] \/ (a[1] = b[1] /\ a[2] > b[2])

\* Instant::duration_since(earlier), which saturates at zero; microseconds
duration_since(a, earlier) ==
    LET d == (a[1] - earlier[1]) * 1000 + ((earlier[2] - a[2]) * 1000000) \div SampleRate
    IN  IF Earlier(a, earlier) \/ d < 0 THEN 0 ELSE d

\* push_back each sample, pop_front beyond buffer_size
RECURSIVE push_samples(_, _)
push_samples(buffer, samples) ==
    IF samples = <<>> THEN buffer
    ELSE LET pushed == Append(buffer, Head(samples))
         IN  push_samples(IF Len(pushed) > BufferBlocks THEN Tail(pushed) ELSE pushed,
                          Tail(samples))

\* calculate_spectral_flux: one value per hop while a whole window is left,
\* for i in (0..len.saturating_sub(window_size)).step_by(hop_size)
calculate_spectral_flux(buffer) ==
    LET len == Len(buffer) * hop_size
        span == IF len > window_size THEN len - window_size ELSE 0
        frames == (span + hop_size - 1) \div hop_size
    IN  SubSeq(buffer, 1, frames)

\* is_local_maximum(data, index), index from 0
is_local_maximum(data, index) ==
    IF index = 0 \/ index >= Len(data) - 1 THEN FALSE
    ELSE data[index + 1] > data[index] /\ data[index + 1] > data[index + 2]

\* detect_onsets when Instant::now() reads instant: the instants of the flux peaks of
\* the buffer, in frame order, each its frame index over the sample rate before instant
detect_onsets_at(buffer, instant) ==
    IF Len(buffer) = 0 THEN <<>>
    ELSE LET spectral_flux == calculate_spectral_flux(buffer)
             peaks == SelectSeq([k \in 1..Len(spectral_flux) |-> k - 1],
                                LAMBDA i : /\ spectral_flux[i + 1] > onset_threshold
                                           /\ is_local_maximum(spectral_flux, i))
         IN  [k \in 1..Len(peaks) |-> <<instant[1], instant[2] + peaks[k]>>]

\* detect_onsets called on a whole millisecond of the clock
detect_onsets(buffer) == detect_onsets_at(buffer, <<now, 0>>)

\* while let Some(&oldest) = front { if oldest < cutoff_time { pop_front } else { break } }
RECURSIVE clean_old_onsets(_, _)
clean_old_onsets(history, cutoff_time) ==
    IF history = <<>> THEN history
    ELSE IF Earlier(Head(history), cutoff_time)
         THEN clean_old_onsets(Tail(history), cutoff_time)
         ELSE history

\* The intervals between consecutive entries of the onset history
onset_intervals(onsets) ==
    [i \in 1..(Len(onsets) - 1) |-> duration_since(onsets[i + 1], onsets[i])]

\* The group an interval joins: the first whose mean it is within 0.8 .. 1.2 of
\* (a division by a zero mean gives inf or NaN, and no match); 0 when none
matching_group(groups, interval) ==
    LET hits == {g \in 1..Len(groups) :
                    /\ groups[g][1] > 0
                    /\ 10 * interval > 8 * groups[g][1]
                    /\ 10 * interval < 12 * groups[g][1]}
    IN  IF hits = {} THEN 0 ELSE CHOOSE g \in hits : \A h \in hits : g <= h

RECURSIVE group_intervals(_, _)
group_intervals(groups, intervals) ==
    IF intervals = <<>> THEN groups
    ELSE LET interval == Head(intervals)
             g == matching_group(groups, interval)
         IN  group_intervals(
                 IF g = 0 THEN Append(groups, <<interval, 1>>)
                 ELSE [groups EXCEPT ![g] =
                          << (groups[g][1] * groups[g][2] + interval) \div (groups[g][2] + 1),
                             groups[g][2] + 1 >>],
                 Tail(intervals))

find_tempo_intervals(intervals) ==
    LET groups == group_intervals(<<>>, intervals)
        min_support == Len(intervals) \div 4
        kept == SelectSeq(groups, LAMBDA g : g[2] >= min_support)
    IN  [k \in 1..Len(kept) |-> kept[k][1]]

in_bpm_range(b) == b >= min_bpm * 10 /\ b <= max_bpm * 10

\* The candidates of one interval: 60 / interval, its half and its double, each when
\* within min_bpm .. max_bpm; 60 / 0 is inf and yields none
interval_candidates(interval) ==
    IF interval = 0 THEN <<>>
    ELSE LET b == 600000000 \div interval
         IN  (IF in_bpm_range(b) THEN <<b>> ELSE <<>>)
             \o (IF in_bpm_range(b \div 2) THEN <<b \div 2>> ELSE <<>>)
             \o (IF in_bpm_range(b * 2) THEN <<b * 2>> ELSE <<>>)

RECURSIVE bpm_candidates(_)
bpm_candidates(tempo_intervals) ==
    IF tempo_intervals = <<>> THEN <<>>
    ELSE interval_candidates(Head(tempo_intervals)) \o bpm_candidates(Tail(tempo_intervals))

\* (bpm.round() as i32).clamp(60, 200)
rounded_bpm(b) == Clamp((b + 5) \div 10, 60, 200)

\* find_most_stable_bpm of a non-empty candidate list: the histogram keys of the
\* highest count.  max_by_key walks a HashMap, whose order decides among equals, so
\* each of them can be returned.
find_most_stable_bpm(candidates) ==
    LET keys == {rounded_bpm(candidates[k]) : k \in 1..Len(candidates)}
        count(key) == Cardinality({k \in 1..Len(candidates) : rounded_bpm(candidates[k]) = key})
    IN  {key \in keys : \A other \in keys : count(other) <= count(key)}

\* calculate_confidence with the candidates sharing the denominator of the distinct
\* tempos
calculate_confidence_per_tempo(candidates, target_bpm) ==
    LET close_count == Cardinality({k \in 1..Len(candidates) :
                                      /\ candidates[k] - target_bpm * 10 <= tolerance
                                      /\ target_bpm * 10 - candidates[k] <= tolerance})
    IN  (close_count * 1000) \div Cardinality({rounded_bpm(candidates[k]) : k \in 1..Len(candidates)})

calculate_confidence(candidates, target_bpm) ==
    IF candidates = <<>> THEN 0
    ELSE LET close_count == Cardinality({k \in 1..Len(candidates) :
                                          /\ candidates[k] - target_bpm * 10 <= tolerance
                                          /\ target_bpm * 10 - candidates[k] <= tolerance})
         IN  (close_count * 1000) \div Len(candidates)

\* BPMDetector::new
DetectorInit ==
    /\ audio_buffer = <<>>
    /\ onset_history = <<>>
    /\ last_onset_time = <<0, 0>>
    /\ bpm_history = <<>>
    /\ current_bpm = 120
    /\ confidence = 0
    /\ tempo_candidates = <<>>

\* calculate_bpm over the onset history left by process_audio
calculate_bpm(onsets) ==
    IF Len(onsets) < MinOnsets
    THEN UNCHANGED <<current_bpm, confidence, bpm_history>>
    ELSE \E candidates \in {bpm_candidates(find_tempo_intervals(onset_intervals(onsets)))} :
            IF candidates = <<>>
            THEN UNCHANGED <<current_bpm, confidence, bpm_history>>
            ELSE \E best_bpm \in find_most_stable_bpm(candidates) :
                    /\ current_bpm' = best_bpm
                    /\ confidence' = calculate_confidence(candidates, best_bpm)
                    /\ bpm_history' =
                          LET pushed == Append(bpm_history, best_bpm)
                          IN  IF Len(pushed) > BpmHistoryCap THEN Tail(pushed) ELSE pushed

\* The estimate falling back to the defaults when the data are insufficient
estimate_or_reset(onsets) ==
    IF Len(onsets) >= MinOnsets THEN calculate_bpm(onsets)
    ELSE /\ current_bpm' = 120
         /\ confidence' = 0
         /\ UNCHANGED bpm_history

\* if self.onset_history.len() >= 4 { self.calculate_bpm()?; }
estimate(onsets) ==
    IF Len(onsets) >= MinOnsets THEN calculate_bpm(onsets)
    ELSE UNCHANGED <<current_bpm, confidence, bpm_history>>

\* process_audio(samples) when Instant::now() reads instant: what it does to the detector
process_audio_at(samples, instant) ==
    \E buffer \in {push_samples(audio_buffer, samples)} :
    \E onsets \in {detect_onsets_at(buffer, instant)} :
    \E history \in {clean_old_onsets(onset_history \o onsets,
                                     <<instant[1] - analysis_window, instant[2]>>)} :
        /\ audio_buffer' = buffer
        /\ last_onset_time' = IF onsets = <<>> THEN last_onset_time ELSE Last(onsets)
        /\ onset_history' = history
        /\ estimate(history)
        /\ UNCHANGED tempo_candidates

\* process_audio called on a whole millisecond of the clock
process_audio(samples) == process_audio_at(samples, <<now, 0>>)

\* The BPMResult of the process_audio call that led to the state after it
process_audio_ret(samples) ==
    [bpm |-> current_bpm',
     confidence |-> confidence',
     beat_detected |-> detect_onsets(push_samples(audio_buffer, samples)) # <<>>,
     tempo_stable |-> confidence' > tempo_stability_threshold]

\* reset that leaves the estimate alone
reset_histories ==
    /\ audio_buffer' = <<>>
    /\ onset_history' = <<>>
    /\ bpm_history' = <<>>
    /\ tempo_candidates' = <<>>
    /\ UNCHANGED <<current_bpm, confidence, last_onset_time>>

reset ==
    /\ audio_buffer' = <<>>
    /\ onset_history' = <<>>
    /\ bpm_history' = <<>>
    /\ tempo_candidates' = <<>>
    /\ current_bpm' = 120
    /\ confidence' = 0
    /\ UNCHANGED last_onset_time

(***************************************************************************)
(* VJIntegration (src/app/vj_integration.rs): the tempo tracker feeding the *)
(* director and the morph engine.  A chunk of audio is a record: blocks as *)
(* the tracker reads them, and the RMS level and the band levels           *)
(* calculate_audio_analysis computes from the samples, in tenths.          *)
(***************************************************************************)
\* VJIntegration::new
IntegrationInit ==
    /\ autonomous_mode = FALSE
    /\ vj_current_bpm = 120
    /\ current_energy = 5
    /\ vj_beat_detected = FALSE
    /\ frequency_bands = <<5, 5, 5>>

enable_autonomous_mode ==
    /\ autonomous_mode' = TRUE
    /\ UNCHANGED <<vj_current_bpm, current_energy, vj_beat_detected, frequency_bands>>

\* calculate_audio_analysis: nothing on an empty chunk, else rms and the bands, clamped
calculate_audio_analysis(samples) ==
    IF samples.blocks = <<>>
    THEN UNCHANGED <<current_energy, frequency_bands>>
    ELSE /\ current_energy' = Clamp(samples.rms, 0, 10)
         /\ frequency_bands' = <<Clamp(samples.bass, 0, 10), Clamp(samples.mid, 0, 10),
                                 Clamp(samples.treble, 0, 10)>>

\* update_audio(audio_samples), with rnd and h the hashes drawn by the director
update_audio(samples, rnd, h) ==
    IF ~autonomous_mode
    THEN UNCHANGED <<integrationVars, detectorVars, engineVars, morpherVars>>
    ELSE /\ process_audio(samples.blocks)
         /\ vj_current_bpm' = process_audio_ret(samples.blocks).bpm
         /\ vj_beat_detected' = process_audio_ret(samples.blocks).beat_detected
         /\ calculate_audio_analysis(samples)
         /\ update_audio_analysis(vj_current_bpm', current_energy', vj_beat_detected',
                                  frequency_bands'[1], frequency_bands'[3], rnd, h)
         /\ update_morph(vj_current_bpm', current_energy', vj_beat_detected')
         /\ UNCHANGED autonomous_mode

(***************************************************************************)
(* AudioCapture (src/audio/capture.rs): the input callback of the audio    *)
(* thread and get_samples of the render thread, each run under the mutex   *)
(* of the shared buffer, so each is one step.                              *)
(***************************************************************************)
\* The channels of the input stream.
Channels == 2
CaptureCap == 4096

\* AudioCapture::new: an empty buffer
CaptureInit == capture_buffer = <<>>

\* data.chunks(channels): mono sample = sum of the frame / channels
RECURSIVE to_mono(_)
to_mono(data) ==
    IF data = <<>> THEN <<>>
    ELSE LET n == Min(Channels, Len(data))
         IN  <<SumSeq(SubSeq(data, 1, n)) \div Channels>> \o
             to_mono(SubSeq(data, n + 1, Len(data)))

\* The input callback: clear, push the mono samples, drain beyond 4096
input_callback(data) ==
    \E buf \in {to_mono(data)} :
        capture_buffer' = IF Len(buf) > CaptureCap
                          THEN SubSeq(buf, Len(buf) - CaptureCap + 1, Len(buf))
                          ELSE buf

\* get_samples: a clone of the buffer, which stays as it is
get_samples ==
    UNCHANGED capture_buffer

\* get_samples(&self) -> Vec<f32>: the value returned
get_samples_ret == capture_buffer

(***************************************************************************)
(* AutonomousStartup (src/vj/autonomous_startup.rs): the phases of the     *)
(* startup sequence.  A chunk is the record VJIntegration is given.        *)
(***************************************************************************)
bpm_confidence_threshold == 700
AudioSetupTimeoutMs == 5000
BpmDetectionTimeoutMs == 10000

\* AutonomousStartup::new
StartupInit ==
    /\ current_phase = "Initialization"
    /\ phase_start_time = 0
    /\ phase_duration = 2000
    /\ audio_detected = FALSE
    /\ bpm_confident = FALSE
    /\ startup_complete = FALSE

next_phase(new_phase) ==
    /\ current_phase' = new_phase
    /\ phase_start_time' = now
    /\ phase_duration' = CASE new_phase = "Initialization" -> 2000
                            [] new_phase = "AudioSetup" -> 5000
                            [] new_phase = "BPMDetection" -> 10000
                            [] new_phase = "FirstCue" -> 1000
                            [] new_phase = "Synchronization" -> 4000
                            [] new_phase = "Running" -> 0

same_phase == UNCHANGED <<current_phase, phase_start_time, phase_duration>>

update_initialization ==
    /\ IF Elapsed(phase_start_time) >= phase_duration
       THEN next_phase("AudioSetup")
       ELSE same_phase
    /\ UNCHANGED <<audio_detected, bpm_confident, startup_complete, engineVars,
                   detectorVars>>

\* rms > 0.01 on a chunk that is not empty; rms in tenths
update_audio_setup(samples) ==
    /\ audio_detected' = IF samples.blocks = <<>> THEN audio_detected
                         ELSE 10 * samples.rms > 1
    /\ IF audio_detected' THEN next_phase("BPMDetection")
       ELSE IF Elapsed(phase_start_time) >= AudioSetupTimeoutMs THEN next_phase("Running")
       ELSE same_phase
    /\ UNCHANGED <<bpm_confident, startup_complete, engineVars, detectorVars>>

update_bpm_detection(samples) ==
    /\ process_audio(samples.blocks)
    /\ bpm_confident' = (confidence' > bpm_confidence_threshold)
    /\ IF bpm_confident' THEN next_phase("FirstCue")
       ELSE IF Elapsed(phase_start_time) >= BpmDetectionTimeoutMs THEN next_phase("FirstCue")
       ELSE same_phase
    /\ UNCHANGED <<audio_detected, startup_complete, engineVars>>

\* energy 0.8, a beat, bands (0.7, 0.6, 0.5); rnd and h are the director's draws
update_first_cue(rnd, h) ==
    /\ update_audio_analysis(current_bpm, 8, TRUE, 7, 5, rnd, h)
    /\ next_phase("Synchronization")
    /\ UNCHANGED <<audio_detected, bpm_confident, startup_complete, detectorVars>>

\* elapsed >= measure_duration = (60 / bpm) * 4 seconds, i.e. ms * bpm >= 240000
update_synchronization ==
    /\ IF Elapsed(phase_start_time) * current_bpm >= 240000
       THEN startup_complete' = TRUE /\ next_phase("Running")
       ELSE UNCHANGED startup_complete /\ same_phase
    /\ UNCHANGED <<audio_detected, bpm_confident, engineVars, detectorVars>>

update_running ==
    UNCHANGED <<startupVars, engineVars, detectorVars>>

\* AutonomousStartup::update(audio_samples)
startup_update(samples, rnd, h) ==
    CASE current_phase = "Initialization" -> update_initialization
      [] current_phase = "AudioSetup" -> update_audio_setup(samples)
      [] current_phase = "BPMDetection" -> update_bpm_detection(samples)
      [] current_phase = "FirstCue" -> update_first_cue(rnd, h)
      [] current_phase = "Synchronization" -> update_synchronization
      [] current_phase = "Running" -> update_running

is_startup_complete == startup_complete

(***************************************************************************)
(* next and previous of PatternType, PaletteType and ColorMode             *)
(* (src/params/config/pattern_type.rs, palette_type.rs,                    *)
(* src/params/color_mode.rs): the match arms, in the order of the source.  *)
(***************************************************************************)
Col(n) == <<"ColorMode", n>>

\* enum PatternType
PatternTypes ==
    {Pat("Plasma"), Pat("Waves"), Pat("Ripples"), Pat("Vortex"), Pat("Noise"),
      Pat("Geometric"), Pat("Voronoi"), Pat("Truchet"), Pat("Hexagonal"),
      Pat("Interference"), Pat("Fractal"), Pat("Glitch"), Pat("Spiral"), Pat("Rings"),
      Pat("Grid"), Pat("Diamonds"), Pat("Sphere"), Pat("Octgrams"), Pat("WarpedFbm") }

PatternType_next(v) ==
    CASE v = Pat("Plasma") -> Pat("Waves")
      [] v = Pat("Waves") -> Pat("Ripples")
      [] v = Pat("Ripples") -> Pat("Vortex")
      [] v = Pat("Vortex") -> Pat("Noise")
      [] v = Pat("Noise") -> Pat("Geometric")
      [] v = Pat("Geometric") -> Pat("Voronoi")
      [] v = Pat("Voronoi") -> Pat("Truchet")
      [] v = Pat("Truchet") -> Pat("Hexagonal")
      [] v = Pat("Hexagonal") -> Pat("Interference")
      [] v = Pat("Interference") -> Pat("Fractal")
      [] v = Pat("Fractal") -> Pat("Glitch")
      [] v = Pat("Glitch") -> Pat("Spiral")
      [] v = Pat("Spiral") -> Pat("Rings")
      [] v = Pat("Rings") -> Pat("Grid")
      [] v = Pat("Grid") -> Pat("Diamonds")
      [] v = Pat("Diamonds") -> Pat("Sphere")
      [] v = Pat("Sphere") -> Pat("Octgrams")
      [] v = Pat("Octgrams") -> Pat("WarpedFbm")
      [] v = Pat("WarpedFbm") -> Pat("Plasma")

PatternType_previous(v) ==
    CASE v = Pat("Plasma") -> Pat("WarpedFbm")
      [] v = Pat("WarpedFbm") -> Pat("Octgrams")
      [] v = Pat("Octgrams") -> Pat("Sphere")
      [] v = Pat("Sphere") -> Pat("Diamonds")
      [] v = Pat("Diamonds") -> Pat("Grid")
      [] v = Pat("Grid") -> Pat("Rings")
      [] v = Pat("Rings") -> Pat("Spiral")
      [] v = Pat("Spiral") -> Pat("Glitch")
      [] v = Pat("Glitch") -> Pat("Fractal")
      [] v = Pat("Fractal") -> Pat("Interference")
      [] v = Pat("Interference") -> Pat("Hexagonal")
      [] v = Pat("Hexagonal") -> Pat("Truchet")
      [] v = Pat("Truchet") -> Pat("Voronoi")
      [] v = Pat("Voronoi") -> Pat("Geometric")
      [] v = Pat("Geometric") -> Pat("Noise")
      [] v = Pat("Noise") -> Pat("Vortex")
      [] v = Pat("Vortex") -> Pat("Ripples")
      [] v = Pat("Ripples") -> Pat("Waves")
      [] v = Pat("Waves") -> Pat("Plasma")

\* enum PaletteType
PaletteTypes ==
    {Pal("Standard"), Pal("Blocks"), Pal("Circles"), Pal("Smooth"), Pal("Braille"),
      Pal("Geometric"), Pal("Mixed"), Pal("Dots"), Pal("Extended"), Pal("Simple"),
      Pal("Shades"), Pal("Lines"), Pal("Triangles"), Pal("Arrows"), Pal("Powerline"),
      Pal("BoxDraw") }

\* next following the order of declaration of the variants
PaletteType_next_declared(v) ==
    CASE v = Pal("Standard") -> Pal("Blocks")
      [] v = Pal("Blocks") -> Pal("Circles")
      [] v = Pal("Circles") -> Pal("Smooth")
      [] v = Pal("Smooth") -> Pal("Braille")
      [] v = Pal("Braille") -> Pal("Geometric")
      [] v = Pal("Geometric") -> Pal("Mixed")
      [] v = Pal("Mixed") -> Pal("Dots")
      [] v = Pal("Dots") -> Pal("Extended")
      [] v = Pal("Extended") -> Pal("Simple")
      [] v = Pal("Simple") -> Pal("Shades")
      [] v = Pal("Shades") -> Pal("Lines")
      [] v = Pal("Lines") -> Pal("Triangles")
      [] v = Pal("Triangles") -> Pal("Arrows")
      [] v = Pal("Arrows") -> Pal("Powerline")
      [] v = Pal("Powerline") -> Pal("BoxDraw")
      [] v = Pal("BoxDraw") -> Pal("Standard")

PaletteType_next(v) ==
    CASE v = Pal("Standard") -> Pal("Blocks")
      [] v = Pal("Blocks") -> Pal("Circles")
      [] v = Pal("Circles") -> Pal("Smooth")
      [] v = Pal("Smooth") -> Pal("Braille")
      [] v = Pal("Braille") -> Pal("Geometric")
      [] v = Pal("Geometric") -> Pal("Mixed")
      [] v = Pal("Mixed") -> Pal("Dots")
      [] v = Pal("Dots") -> Pal("Shades")
      [] v = Pal("Shades") -> Pal("Lines")
      [] v = Pal("Lines") -> Pal("Triangles")
      [] v = Pal("Triangles") -> Pal("Arrows")
      [] v = Pal("Arrows") -> Pal("Powerline")
      [] v = Pal("Powerline") -> Pal("BoxDraw")
      [] v = Pal("BoxDraw") -> Pal("Extended")
      [] v = Pal("Extended") -> Pal("Simple")
      [] v = Pal("Simple") -> Pal("Standard")

PaletteType_previous(v) ==
    CASE v = Pal("Standard") -> Pal("Simple")
      [] v = Pal("Simple") -> Pal("Extended")
      [] v = Pal("Extended") -> Pal("BoxDraw")
      [] v = Pal("BoxDraw") -> Pal("Powerline")
      [] v = Pal("Powerline") -> Pal("Arrows")
      [] v = Pal("Arrows") -> Pal("Triangles")
      [] v = Pal("Triangles") -> Pal("Lines")
      [] v = Pal("Lines") -> Pal("Shades")
      [] v = Pal("Shades") -> Pal("Dots")
      [] v = Pal("Dots") -> Pal("Mixed")
      [] v = Pal("Mixed") -> Pal("Geometric")
      [] v = Pal("Geometric") -> Pal("Braille")
      [] v = Pal("Braille") -> Pal("Smooth")
      [] v = Pal("Smooth") -> Pal("Circles")
      [] v = Pal("Circles") -> Pal("Blocks")
      [] v = Pal("Blocks") -> Pal("Standard")

\* enum ColorMode
ColorModes ==
    {Col("Rainbow"), Col("Monochrome"), Col("Duotone"), Col("Warm"), Col("Cool"),
      Col("Neon"), Col("Pastel"), Col("Cyberpunk"), Col("Warped"), Col("Chromatic") }

ColorMode_next(v) ==
    CASE v = Col("Rainbow") -> Col("Monochrome")
      [] v = Col("Monochrome") -> Col("Duotone")
      [] v = Col("Duotone") -> Col("Warm")
      [] v = Col("Warm") -> Col("Cool")
      [] v = Col("Cool") -> Col("Neon")
      [] v = Col("Neon") -> Col("Pastel")
      [] v = Col("Pastel") -> Col("Cyberpunk")
      [] v = Col("Cyberpunk") -> Col("Warped")
      [] v = Col("Warped") -> Col("Chromatic")
      [] v = Col("Chromatic") -> Col("Rainbow")

ColorMode_previous(v) ==
    CASE v = Col("Rainbow") -> Col("Chromatic")
      [] v = Col("Chromatic") -> Col("Warped")
      [] v = Col("Warped") -> Col("Cyberpunk")
      [] v = Col("Cyberpunk") -> Col("Pastel")
      [] v = Col("Pastel") -> Col("Neon")
      [] v = Col("Neon") -> Col("Cool")
      [] v = Col("Cool") -> Col("Warm")
      [] v = Col("Warm") -> Col("Duotone")
      [] v = Col("Duotone") -> Col("Monochrome")
      [] v = Col("Monochrome") -> Col("Rainbow")

\* v.next() and v.previous(), by the type of v
enum_next(v) ==
    CASE v[1] = "PatternType" -> PatternType_next(v)
      [] v[1] = "PaletteType" -> PaletteType_next(v)
      [] v[1] = "ColorMode" -> ColorMode_next(v)

enum_previous(v) ==
    CASE v[1] = "PatternType" -> PatternType_previous(v)
      [] v[1] = "PaletteType" -> PaletteType_previous(v)
      [] v[1] = "ColorMode" -> ColorMode_previous(v)

\* The variants of the type of v
VariantsOf(v) ==
    CASE v[1] = "PatternType" -> PatternTypes
      [] v[1] = "PaletteType" -> PaletteTypes
      [] v[1] = "ColorMode" -> ColorModes

(***************************************************************************)
(* The environment of the director.                                        *)
(***************************************************************************)
\* The audio snapshots fed to the director: one per mood, and a quiet Melodic one
AudioInputs ==
    { [bpm |-> 150, energy |-> 9, bass |-> 5, treble |-> 5],    \* Energetic, energy spike
      [bpm |-> 70,  energy |-> 1, bass |-> 5, treble |-> 5],    \* Ambient
      [bpm |-> 120, energy |-> 5, bass |-> 8, treble |-> 5],    \* Rhythmic
      [bpm |-> 120, energy |-> 6, bass |-> 5, treble |-> 8],    \* Chaotic
      [bpm |-> 120, energy |-> 5, bass |-> 5, treble |-> 5],    \* Melodic
      [bpm |-> 120, energy |-> 1, bass |-> 5, treble |-> 5] }   \* Melodic, energy trough

\* The draws of check_random_transition: just below and at transition_probability
RandomDraws == {TransitionProbabilityMilli - 1, TransitionProbabilityMilli}

\* Under Spec the tempo tracker reports no beat.  A beat reaches a transition
\* decision only through check_beat_transition, which should_transition consults
\* after the min and max duration tests.
BeatInputs == {FALSE}

Init ==
    /\ now = 0
    /\ last_call = Call("new", <<>>, <<>>)
    /\ EngineInit
    /\ MorpherInit
    /\ AnalyzerInit
    /\ since_drop = -1
    /\ DetectorInit
    /\ IntegrationInit
    /\ silent_since = -1
    /\ CaptureInit
    /\ deliveries = 0
    /\ StartupInit

\* Time passes between two calls
Advance ==
    /\ now + TickMs <= MaxTicks * TickMs
    /\ Len(transition_history) < MaxTransitions
    /\ now' = now + TickMs
    /\ last_call' = Call("advance", <<>>, <<>>)
    /\ UNCHANGED <<engineVars, morpherVars, audioVars, pipelineVars>>

UpdateAudioAnalysis ==
    /\ Len(transition_history) < MaxTransitions
    /\ \E in \in AudioInputs, beat \in BeatInputs, rnd \in RandomDraws, h \in 0..(NumHash - 1) :
          /\ update_audio_analysis(in.bpm, in.energy, beat, in.bass, in.treble, rnd, h)
          /\ last_call' = Call("update_audio_analysis", <<>>,
                               update_audio_analysis_ret(in.bpm, in.energy, beat, in.bass,
                                                         in.treble, rnd, h))
    /\ UNCHANGED <<now, morpherVars, audioVars, pipelineVars>>

Next == Advance \/ UpdateAudioAnalysis

Spec == Init /\ [][Next]_vars

(***************************************************************************)
(* The morph engine on its own: a caller that starts sessions, polls       *)
(* update_morph and get_morphed_params, and lets time pass.                *)
(***************************************************************************)
\* One clock step of the morph engine's caller, in ms.
MorphTickMs == 250
\* The clock of SpecMorph stops after this many steps.
MaxMorphTicks == 10

\* with_audio_reactive_defaults()
ReactiveParams ==
    [DefaultParams EXCEPT !.speed = 50, !.brightness = 600, !.contrast = 800,
                          !.amplitude = 400, !.frequency = 6000]

\* A configuration that differs from the default in fields of both kinds
WarmParams ==
    [DefaultParams EXCEPT !.hue = 350000, !.color_shift = 500, !.gamma = 2200,
                          !.octaves = 6, !.saturation = 1500,
                          !.pattern_type = Pat("Waves")]

\* The (source, target) configurations sessions are started with
MorphPairs == { <<DefaultParams, WarmParams>>, <<WarmParams, ReactiveParams>> }

\* (bpm, energy in tenths, beat_detected): the three laws' factors below, at and above 1
MorphInputs == { <<60, 0, FALSE>>, <<120, 5, TRUE>>, <<240, 10, TRUE>> }

MorphDurations == {None, Some(1000)}

MorphAdvance ==
    /\ now + MorphTickMs <= MaxMorphTicks * MorphTickMs
    /\ now' = now + MorphTickMs
    /\ last_call' = Call("advance", <<>>, <<>>)
    /\ UNCHANGED <<engineVars, morpherVars, audioVars, pipelineVars>>

StartMorph ==
    /\ \E pair \in MorphPairs,
          morph_type \in {None} \cup {Some(t) : t \in MorphTypes},
          duration \in MorphDurations :
          start_morph(pair[1].pattern_type, pair[2].pattern_type, pair[1], pair[2],
                      morph_type, duration)
    /\ last_call' = Call("start_morph", <<>>, <<>>)
    /\ UNCHANGED <<now, engineVars, audioVars, pipelineVars>>

UpdateMorph ==
    /\ \E in \in MorphInputs :
          /\ update_morph(in[1], in[2], in[3])
          /\ last_call' = Call("update_morph", in, update_morph_ret(in[1], in[2], in[3]))
    /\ UNCHANGED <<now, engineVars, audioVars, pipelineVars>>

GetMorphedParams ==
    /\ last_call' = Call("get_morphed_params", <<>>, get_morphed_params)
    /\ UNCHANGED <<now, engineVars, morpherVars, audioVars, pipelineVars>>

StopMorphing ==
    /\ stop_morphing
    /\ last_call' = Call("stop_morphing", <<>>, <<>>)
    /\ UNCHANGED <<now, engineVars, audioVars, pipelineVars>>

SetMorphDuration ==
    /\ \E duration \in {1000, 2000} : set_morph_duration(duration)
    /\ last_call' = Call("set_morph_duration", <<>>, <<>>)
    /\ UNCHANGED <<now, engineVars, audioVars, pipelineVars>>

SetMorphType ==
    /\ \E morph_type \in MorphTypes : set_morph_type(morph_type)
    /\ last_call' = Call("set_morph_type", <<>>, <<>>)
    /\ UNCHANGED <<now, engineVars, audioVars, pipelineVars>>

MorphNext ==
    \/ MorphAdvance
    \/ StartMorph
    \/ UpdateMorph
    \/ GetMorphedParams
    \/ StopMorphing
    \/ SetMorphDuration
    \/ SetMorphType

SpecMorph == Init /\ [][MorphNext]_vars

(***************************************************************************)
(* Properties of the director.                                             *)
(***************************************************************************)
\* A step that executed a transition: initiate_transition pushed a record
Transitioned == transition_history' # transition_history

\* A step that was an update_audio_analysis call which executed a transition
JustTransitioned ==
    /\ last_call.op = "update_audio_analysis"
    /\ transition_history # <<>>
    /\ transition_history[Len(transition_history)].timestamp = now

\* The time the configuration vacated by the i-th recorded transition was entered
EnteredAt(i) == IF i = 1 THEN 0 ELSE transition_history[i - 1].timestamp

\* A blacklist holds an entry for v that is younger than the cooldown
CoolingDown(blacklist, v) ==
    /\ DebugName(v) \in DOMAIN blacklist
    /\ now - blacklist[DebugName(v)] < BlacklistDurationMs

SeqRange(seq) == {seq[i] : i \in 1..Len(seq)}

\* C1: every transition starts at least 8 s (min_pattern_duration) after the
\* configuration it vacates was entered, so two consecutive transitions are never
\* less than 8 s apart, and the first is at least 8 s after construction.
C1_MinPatternDuration ==
    \A i \in 1..Len(transition_history) :
        transition_history[i].timestamp - EnteredAt(i) >= MinPatternDurationMs

\* Two transitions exactly 8 s apart have been executed.
C1_Witness ==
    \E i \in 2..Len(transition_history) :
        transition_history[i].timestamp - EnteredAt(i) = MinPatternDurationMs

\* C2: an update_audio_analysis call made when no transition is in progress and more
\* than 45 s (max_pattern_duration) have passed since the current configuration was
\* entered starts a transition, whatever the inputs and the random draw.
C2_MaxPatternDuration ==
    [][ ( /\ last_call'.op = "update_audio_analysis"
          /\ ~transition_in_progress
          /\ now - transition_start_time > MaxPatternDurationMs )
        => ( /\ Transitioned
             /\ transition_in_progress'
             /\ transition_start_time' = now ) ]_vars

\* A transition has just been executed more than 45 s after the configuration it
\* vacated was entered, on a quiet Melodic input that triggers nothing by itself.
C2_Witness ==
    /\ JustTransitioned
    /\ now - EnteredAt(Len(transition_history)) > MaxPatternDurationMs
    /\ mood = "Melodic" /\ energy_level = 5

\* C3: the pattern a transition makes current has, at that moment, no entry in the
\* pattern blacklist younger than the 30 s cooldown.
C3_PatternNotBlacklisted ==
    [][ Transitioned => ~CoolingDown(pattern_blacklist, current_pattern') ]_vars

\* A transition has just been executed while another pattern of the mood's preferred
\* set was under cooldown.
C3_Witness ==
    /\ JustTransitioned
    /\ \E p \in SeqRange(preferred_patterns(mood)) :
          /\ p # current_pattern
          /\ CoolingDown(pattern_blacklist, p)

\* C4 (as claimed): the palette a transition makes current has, at that moment, no
\* entry in the palette blacklist younger than the 30 s cooldown.
C4_PaletteNotBlacklisted ==
    [][ Transitioned => ~CoolingDown(palette_blacklist, current_palette') ]_vars

\* C5 (as claimed): a transition enters the pattern and the palette it vacates into
\* the blacklists, stamped with the transition time.
C5_VacatedBlacklisted ==
    [][ Transitioned =>
          /\ DebugName(current_pattern) \in DOMAIN pattern_blacklist'
          /\ pattern_blacklist'[DebugName(current_pattern)] = now
          /\ DebugName(current_palette) \in DOMAIN palette_blacklist'
          /\ palette_blacklist'[DebugName(current_palette)] = now ]_vars

\* The patterns (palettes) that were current at some time in the 30 s before now:
\* the current one, and those vacated by a recorded transition less than 30 s ago
RecentPatterns ==
    {current_pattern} \cup
    { transition_history[i].from_pattern :
        i \in {j \in 1..Len(transition_history) :
                 now - transition_history[j].timestamp < BlacklistDurationMs} }

RecentPalettes ==
    {current_palette} \cup
    { transition_history[i].from_palette :
        i \in {j \in 1..Len(transition_history) :
                 now - transition_history[j].timestamp < BlacklistDurationMs} }

\* C6 (as claimed): no transition selects a pattern or a palette that was current in
\* the 30 s before it; in particular the new pattern and palette differ from the
\* vacated ones.
C6_NoRecentRepeat ==
    [][ Transitioned =>
          /\ current_pattern' \notin RecentPatterns
          /\ current_palette' \notin RecentPalettes ]_vars

\* C7: the next pattern is drawn from the mood's preferred patterns that are not
\* blacklisted when there is one, and from all the non-blacklisted patterns only
\* when there is none.
C7_PreferredThenFallback ==
    [][ Transitioned =>
          LET free == {p \in SeqRange(all_patterns) : ~CoolingDown(pattern_blacklist, p)}
              wanted == free \cap SeqRange(preferred_patterns(mood'))
          IN  IF wanted # {} THEN current_pattern' \in wanted
                             ELSE current_pattern' \in free ]_vars

\* Two transitions have been executed, the second under a mood whose preferred set
\* does not hold the pattern it vacated, and it selected a preferred pattern.
C7_Witness ==
    /\ JustTransitioned
    /\ Len(transition_history) >= 2
    /\ ~Contains(preferred_patterns(mood),
                 transition_history[Len(transition_history)].from_pattern)
    /\ Contains(preferred_patterns(mood), current_pattern)

(***************************************************************************)
(* interpolate_hue on its own: applied to hues of [0, 360) and progresses  *)
(* of [0, 1] drawn from a grid.                                            *)
(***************************************************************************)
\* The hues are the multiples of this many degrees below 360.
HueStepDeg == 30
\* The progresses are the multiples of 1 / TSteps.
TSteps == 4

HueValues == {h * 1000 : h \in {d \in 0..359 : d % HueStepDeg = 0}}
TValues == {(k * 1000) \div TSteps : k \in 0..TSteps}

InterpolateHue ==
    /\ \E from \in HueValues, to \in HueValues, t \in TValues :
          last_call' = Call("interpolate_hue", <<from, to, t>>, interpolate_hue(from, to, t))
    /\ UNCHANGED <<now, engineVars, morpherVars, audioVars, pipelineVars>>

SpecHue == Init /\ [][InterpolateHue]_vars

(***************************************************************************)
(* Properties of the morph engine.                                         *)
(***************************************************************************)
\* C8: while the engine is not morphing, an update_morph or get_morphed_params call
\* changes nothing in the engine, and get_morphed_params returns exactly the target
\* configuration.
C8_IdlePassthrough ==
    [][ ( /\ ~morphing
          /\ last_call'.op \in {"update_morph", "get_morphed_params"} )
        => ( /\ UNCHANGED morpherVars
             /\ last_call'.op = "get_morphed_params" => last_call'.ret = target_params ) ]_vars

\* get_morphed_params has just returned the target of a finished session whose source
\* and target differ.
C8_Witness ==
    /\ ~morphing
    /\ morph_progress = 1000
    /\ source_params # target_params
    /\ last_call.op = "get_morphed_params"
    /\ last_call.ret = target_params

\* C9 (as claimed): for every law and any inputs, an update_morph call made while
\* morphing and when the elapsed time is at least the session duration clears the
\* morphing flag and reports progress exactly 1.0.
C9_CompleteAtDuration ==
    [][ ( /\ last_call'.op = "update_morph"
          /\ morphing
          /\ now - morph_start_time >= morph_duration )
        => ( ~morphing' /\ last_call'.ret = 1000 ) ]_vars

\* The law in force multiplies the base progress by at least 1 on a call with these
\* arguments <<bpm, energy in tenths, beat_detected>>
FactorAtLeastOne(args) ==
    CASE current_morph_type \in {"Linear", "Smooth"} -> TRUE
      [] current_morph_type = "BeatSync" -> args[3]
      [] current_morph_type = "EnergyDriven" -> args[2] >= 5
      [] current_morph_type = "TempoSync" -> args[1] >= 120

\* C9 (amended): under Linear and Smooth, and under BeatSync on a beat, EnergyDriven
\* with energy >= 0.5 and TempoSync with bpm >= 120, an update_morph call made while
\* morphing and when the elapsed time is at least the session duration clears the
\* morphing flag, locks the progress at 1.0 and reports exactly 1.0.
C9_CompleteAtDurationUnlessSlowed ==
    [][ ( /\ last_call'.op = "update_morph"
          /\ morphing
          /\ now - morph_start_time >= morph_duration
          /\ FactorAtLeastOne(last_call'.args) )
        => ( /\ ~morphing'
             /\ morph_progress' = 1000
             /\ last_call'.ret = 1000 ) ]_vars

\* An update_morph call has just completed a session at the very moment its duration
\* elapsed, under a law other than Linear and Smooth.
C9_Witness ==
    /\ last_call.op = "update_morph"
    /\ last_call.ret = 1000
    /\ ~morphing
    /\ morph_progress = 1000
    /\ now - morph_start_time = morph_duration
    /\ current_morph_type \in {"BeatSync", "EnergyDriven", "TempoSync"}

\* C10: for hues in [0, 360) and a progress in [0, 1], the interpolated hue is the
\* source plus progress times a signed difference d that is congruent to
\* target - source modulo 360 and has |d| <= 180; when |target - source| > 180 that
\* d is not target - source itself: the path wraps through the 0/360 boundary.
C10_HueShortestArc ==
    last_call.op = "interpolate_hue" =>
        LET from == last_call.args[1]
            to == last_call.args[2]
            t == last_call.args[3]
        IN  \E d \in {to - from - 360000, to - from, to - from + 360000} :
               /\ d <= 180000 /\ -d <= 180000
               /\ 1000 * last_call.ret = 1000 * from + t * d
               /\ (to - from > 180000 \/ from - to > 180000) => d # to - from

\* A hue has been interpolated part of the way across the 0/360 boundary.
C10_Witness ==
    /\ last_call.op = "interpolate_hue"
    /\ last_call.args[2] - last_call.args[1] > 180000
    /\ last_call.args[3] > 0 /\ last_call.args[3] < 1000
    /\ last_call.ret < last_call.args[1]

\* C11 (as claimed): a wrap-around interpolation (|target - source| > 180) returns a
\* hue expressed in [0, 360); half way from 350 to 10 that is approximately 0.
C11_WrapAroundInRange ==
    last_call.op = "interpolate_hue" =>
        LET from == last_call.args[1]
            to == last_call.args[2]
        IN  (to - from > 180000 \/ from - to > 180000)
                => (last_call.ret >= 0 /\ last_call.ret < 360000)

\* The f32 fields of ShaderParams the model carries, hue apart
LinearFields ==
    {"frequency", "amplitude", "speed", "color_shift", "scale", "noise_strength",
     "distort_amplitude", "brightness", "contrast", "saturation", "gamma", "vignette"}

\* C12 (as claimed): while a morph is in progress, every continuous field of the
\* configuration get_morphed_params returns, hue apart, equals
\* source + (target - source) x progress.
C12_EveryFieldInterpolated ==
    [][ ( /\ last_call'.op = "get_morphed_params"
          /\ morphing )
        => \A f \in LinearFields :
              last_call'.ret[f] =
                  source_params[f] + ((target_params[f] - source_params[f]) * morph_progress) \div 1000 ]_vars

(***************************************************************************)
(* The feature extractor on its own: a caller that hands it chunks with    *)
(* the time elapsed since the previous one.                                *)
(***************************************************************************)
\* The extractor is followed until it has analyzed this many non-empty chunks.
MaxAnalyzeCalls == 10

\* An empty chunk, a silent one, and a loud one that saturates the three bands
AnalyzerChunks ==
    { [len |-> 0, bass |-> 0, mid |-> 0, treble |-> 0],
      [len |-> 1024, bass |-> 0, mid |-> 0, treble |-> 0],
      [len |-> 1024, bass |-> 1000, mid |-> 1000, treble |-> 1000] }

\* delta_time, ms
DeltaTimes == {250, 500}

Analyze ==
    /\ \E samples \in AnalyzerChunks, delta_time \in DeltaTimes :
          /\ samples.len > 0 => Len(energy_history) < MaxAnalyzeCalls
          /\ analyze(samples, delta_time)
          /\ \E ret \in {analyze_ret(samples, delta_time)} :
                /\ last_call' = Call("analyze", <<samples, delta_time>>, ret)
                /\ since_drop' = IF ret.is_drop THEN 0
                                 ELSE IF since_drop < 0 THEN since_drop
                                 ELSE Min(since_drop + delta_time, DropCooldownMs)
    /\ UNCHANGED <<now, engineVars, morpherVars, detectorVars, pipelineVars>>

SpecAnalyzer == Init /\ [][Analyze]_vars

(***************************************************************************)
(* Properties of the feature extractor.                                    *)
(***************************************************************************)
\* C13 (as claimed): each numeric field of the AudioFeatures analyze returns lies in
\* [0, 1], for every chunk and delta_time and after any history of calls.
C13_FeaturesInUnitRange ==
    last_call.op = "analyze" =>
        \A f \in {"bass", "mid", "treble", "overall", "beat_strength"} :
            last_call.ret[f] >= 0 /\ last_call.ret[f] <= 1000

\* C14: analyze on an empty chunk returns all-zero features with is_drop false,
\* whatever the state of the extractor.
C14_EmptyChunkDefault ==
    (last_call.op = "analyze" /\ last_call.args[1].len = 0)
        => last_call.ret = AudioFeaturesDefault

\* analyze has just been handed an empty chunk while the beat pulse was up, the
\* histories were not empty and the drop cooldown was running.
C14_Witness ==
    /\ last_call.op = "analyze"
    /\ last_call.args[1].len = 0
    /\ last_call.ret = AudioFeaturesDefault
    /\ beat_pulse > 0
    /\ previous_bass > 0
    /\ drop_cooldown > 0

\* C20: once analyze has returned is_drop = true, it returns is_drop = true again
\* only after the calls in between were handed at least 1 s of delta_time in total.
C20_DropCooldown ==
    [][ ( /\ last_call'.op = "analyze"
          /\ last_call'.ret.is_drop
          /\ since_drop >= 0 )
        => since_drop >= DropCooldownMs ]_vars

\* A second drop has just been reported; the first was at the third chunk.
C20_Witness ==
    /\ last_call.op = "analyze"
    /\ last_call.ret.is_drop
    /\ Len(bass_history) > 3
    /\ bass_history[1] = 0 /\ bass_history[2] = 0 /\ bass_history[3] = 1000

(***************************************************************************)
(* The tempo tracker on its own: a caller that hands it chunks of audio,   *)
(* resets it, and lets time pass, a tick at a time or for a whole          *)
(* analysis window.                                                        *)
(***************************************************************************)
\* One clock step of the tracker's caller, in ms.
DetectorTickMs == 250
\* The clock runs for this many steps, and again after a long pause.
MaxDetectorTicks == 3
\* The tracker is fed while its onset history is shorter than this.
MaxOnsets == 5
\* The tracker is fed while its bpm history is shorter than this.
MaxEstimates == 2

\* No samples; a quarter buffer of quiet; and whole buffers: quiet, a click early,
\* a click late, two clicks
DetectorChunks ==
    { <<>>,
      <<0, 0>>,
      <<0, 0, 0, 0, 0, 0, 0, 0>>,
      <<0, 5, 0, 0, 0, 0, 0, 0>>,
      <<0, 0, 0, 5, 0, 0, 0, 0>>,
      <<0, 5, 0, 5, 0, 0, 0, 0>> }

DetectorAdvance ==
    /\ (now % analysis_window) + DetectorTickMs <= MaxDetectorTicks * DetectorTickMs
    /\ now' = now + DetectorTickMs
    /\ last_call' = Call("advance", <<>>, <<>>)
    /\ UNCHANGED <<engineVars, morpherVars, audioVars, pipelineVars>>

\* Nothing is asked of the tracker for a whole analysis window
DetectorPause ==
    /\ now < analysis_window
    /\ now' = now + analysis_window
    /\ last_call' = Call("advance", <<>>, <<>>)
    /\ UNCHANGED <<engineVars, morpherVars, audioVars, pipelineVars>>

ProcessAudio ==
    /\ Len(onset_history) < MaxOnsets
    /\ Len(bpm_history) < MaxEstimates
    /\ \E samples \in DetectorChunks :
          /\ process_audio(samples)
          /\ last_call' = Call("process_audio", <<samples>>, process_audio_ret(samples))
    /\ UNCHANGED <<now, engineVars, morpherVars, analyzerVars, since_drop, pipelineVars>>

Reset ==
    /\ reset
    /\ last_call' = Call("reset", <<>>, <<>>)
    /\ UNCHANGED <<now, engineVars, morpherVars, analyzerVars, since_drop, pipelineVars>>

DetectorNext == DetectorAdvance \/ DetectorPause \/ ProcessAudio \/ Reset

SpecDetector == Init /\ [][DetectorNext]_vars

(***************************************************************************)
(* The tempo tracker fed a click train: one whole buffer holding one click *)
(* every ClickPeriodMs, and nothing else.                                  *)
(***************************************************************************)
\* The spacing of the clicks, in ms.
ClickPeriodMs == 500
\* The click train lasts this long, in ms.
ClickTrainMs == 8000

ClickChunk == <<0, 5, 0, 0, 0, 0, 0, 0>>

ClickWait ==
    /\ last_call.op = "process_audio"
    /\ now + ClickPeriodMs <= ClickTrainMs
    /\ now' = now + ClickPeriodMs
    /\ last_call' = Call("advance", <<>>, <<>>)
    /\ UNCHANGED <<engineVars, morpherVars, audioVars, pipelineVars>>

ClickProcess ==
    /\ last_call.op # "process_audio"
    /\ process_audio(ClickChunk)
    /\ last_call' = Call("process_audio", <<ClickChunk>>, process_audio_ret(ClickChunk))
    /\ UNCHANGED <<now, engineVars, morpherVars, analyzerVars, since_drop, pipelineVars>>

ClickNext == ClickWait \/ ClickProcess

SpecClickTrain == Init /\ [][ClickNext]_vars

(***************************************************************************)
(* Properties of the tempo tracker.                                        *)
(***************************************************************************)
\* C15: after any sequence of process_audio and reset calls the tracker's bpm is in
\* [60, 200] and its confidence in [0, 1], and process_audio reports these values.
C15_EstimateInRange ==
    /\ current_bpm >= min_bpm /\ current_bpm <= max_bpm
    /\ confidence >= 0 /\ confidence <= 1000
    /\ last_call.op = "process_audio" =>
          /\ last_call.ret.bpm = current_bpm
          /\ last_call.ret.confidence = confidence

\* process_audio has just reported an estimate other than the initial 120 with a
\* confidence strictly between 0 and 1.
C15_Witness ==
    /\ last_call.op = "process_audio"
    /\ last_call.ret.bpm # 120
    /\ last_call.ret.confidence > 0
    /\ last_call.ret.confidence < 1000

\* C16: a process_audio call that ends with fewer than 4 onsets in the onset history
\* leaves bpm and confidence as they were and returns them.
C16_InsufficientDataRetains ==
    [][ ( /\ last_call'.op = "process_audio"
          /\ Len(onset_history') < MinOnsets )
        => ( /\ current_bpm' = current_bpm
             /\ confidence' = confidence
             /\ last_call'.ret.bpm = current_bpm
             /\ last_call'.ret.confidence = confidence ) ]_vars

\* process_audio has just ended with fewer than 4 onsets, the older ones having aged
\* out, and reported an estimate made before.
C16_Witness ==
    /\ last_call.op = "process_audio"
    /\ Len(onset_history) < MinOnsets
    /\ bpm_history # <<>>
    /\ last_call.ret.confidence > 0
    /\ last_call.ret.bpm = Last(bpm_history)

\* C17: reset() leaves bpm 120.0, confidence 0.0 and the sample buffer, the onset
\* history, the bpm history and the tempo candidates empty, whatever the state before.
C17_ResetDefaults ==
    [][ last_call'.op = "reset"
        => ( /\ current_bpm' = 120
             /\ confidence' = 0
             /\ audio_buffer' = <<>>
             /\ onset_history' = <<>>
             /\ bpm_history' = <<>>
             /\ tempo_candidates' = <<>> ) ]_vars

\* reset has just cleared a tracker that had detected onsets after its construction.
C17_Witness ==
    /\ last_call.op = "reset"
    /\ last_onset_time[1] > 0
    /\ current_bpm = 120 /\ confidence = 0
    /\ audio_buffer = <<>> /\ onset_history = <<>> /\ bpm_history = <<>>

\* C18 (as claimed): fed onsets exactly 0.5 s apart, the tracker reports, from 8 s
\* on, a bpm within 120 +/- 5 with a confidence above 0.7 (tempo_stable).
C18_ClickTrainConverges ==
    (last_call.op = "process_audio" /\ now >= analysis_window) =>
        /\ last_call.ret.bpm >= 115 /\ last_call.ret.bpm <= 125
        /\ last_call.ret.confidence > 700
        /\ last_call.ret.tempo_stable

\* A flux peak starts in the samples
OnsetIn(samples) == \E k \in 1..Len(samples) : samples[k] > onset_threshold

\* C19 (as claimed): process_audio reports beat_detected exactly when an onset fell in
\* the samples supplied by that call.
C19_BeatFromOwnSamples ==
    last_call.op = "process_audio" =>
        (last_call.ret.beat_detected <=> OnsetIn(last_call.args[1]))

(***************************************************************************)
(* Properties of the director's triggers.                                  *)
(***************************************************************************)
\* The mood alone asks for a transition
SignificantMood(m, energy) ==
    \/ m = "Chaotic"
    \/ m = "Energetic" /\ energy > 7
    \/ m = "Ambient" /\ energy < 3

\* 10 s or more have passed since the last recorded transition, if there is one
MoodGateOpen ==
    \/ transition_history = <<>>
    \/ now - Last(transition_history).timestamp >= MoodGateMs

\* C22: in every update_audio_analysis call the mood trigger qualifies exactly when 10 s
\* or more have passed since the last recorded transition and the mood is Chaotic, or
\* Energetic with energy > 0.7, or Ambient with energy < 0.3; a transition recorded as
\* MoodChange was decided under these conditions.
C22_MoodGate ==
    [][ last_call'.op = "update_audio_analysis" =>
          /\ check_mood_transition(transition_history, energy_level', mood')
                <=> (MoodGateOpen /\ SignificantMood(mood', energy_level'))
          /\ (Transitioned /\ Last(transition_history').trigger = "MoodChange")
                => (MoodGateOpen /\ SignificantMood(mood', energy_level')) ]_vars

\* A second transition has just been executed on the mood trigger, exactly 10 s after
\* the first.
C22_Witness ==
    /\ JustTransitioned
    /\ Len(transition_history) = 2
    /\ transition_history[2].trigger = "MoodChange"
    /\ transition_history[2].timestamp - transition_history[1].timestamp = MoodGateMs

\* C29 (as claimed): the trigger of the record a transition pushes is what caused it:
\* BeatDetected, EnergyChange or MoodChange only if that condition held at the decision,
\* Random only if a draw was made, and TimeBased when the 45 s maximum forced the
\* transition and no other condition held.
C29_TriggerIsTheCause ==
    [][ Transitioned =>
          LET trigger == Last(transition_history').trigger
              forced == now - transition_start_time > MaxPatternDurationMs
              beat == check_beat_transition(beat_history', bpm')
              energy == check_energy_transition(energy_level', mood')
              moody == check_mood_transition(transition_history, energy_level', mood')
          IN  /\ trigger = "BeatDetected" => beat
              /\ trigger = "EnergyChange" => energy
              /\ trigger = "MoodChange" => moody
              /\ trigger = "Random" => ~forced
              /\ (forced /\ ~beat /\ ~energy /\ ~moody) => trigger = "TimeBased" ]_vars

\* C30: every update_audio_analysis call returns Ok, and at every transition the
\* patterns and the palettes the selection reads as available are non-empty lists.
C30_NeverEscalated ==
    [][ last_call'.op = "update_audio_analysis" =>
          /\ last_call'.ret = "Ok"
          /\ Transitioned => /\ get_available_patterns # <<>>
                             /\ get_available_palettes # <<>> ]_vars

\* A second transition has just been executed and returned Ok while the blacklist was
\* hiding patterns and a palette.
C30_Witness ==
    /\ JustTransitioned
    /\ last_call.ret = "Ok"
    /\ Len(transition_history) = 2
    /\ Len(get_available_patterns) < Len(all_patterns)
    /\ Len(get_available_palettes) < Len(all_palettes)

(***************************************************************************)
(* Enum navigation: a caller that takes a variant and applies next, or     *)
(* previous, to it over and over, or one and then the other.               *)
(***************************************************************************)
\* How many times in a row next or previous is applied.
MaxApplications == 19

\* last_call of a walk: the operation, the variant it started from, how many times the
\* operation has been applied, and the variant reached
EnumStart ==
    /\ \E v \in PatternTypes \cup PaletteTypes \cup ColorModes :
          \/ last_call' = Call("next", <<v, 1>>, enum_next(v))
          \/ last_call' = Call("previous", <<v, 1>>, enum_previous(v))
    /\ UNCHANGED <<now, engineVars, morpherVars, audioVars, pipelineVars>>

EnumApply ==
    /\ last_call.op \in {"next", "previous"}
    /\ last_call.args[2] < MaxApplications
    /\ last_call' = Call(last_call.op, <<last_call.args[1], last_call.args[2] + 1>>,
                         IF last_call.op = "next" THEN enum_next(last_call.ret)
                                                  ELSE enum_previous(last_call.ret))
    /\ UNCHANGED <<now, engineVars, morpherVars, audioVars, pipelineVars>>

\* The other operation applied to the result of the first application
EnumBack ==
    /\ last_call.op \in {"next", "previous"}
    /\ last_call.args[2] = 1
    /\ last_call' = IF last_call.op = "next"
                    THEN Call("next_previous", <<last_call.args[1]>>,
                              enum_previous(last_call.ret))
                    ELSE Call("previous_next", <<last_call.args[1]>>,
                              enum_next(last_call.ret))
    /\ UNCHANGED <<now, engineVars, morpherVars, audioVars, pipelineVars>>

EnumNext == EnumStart \/ EnumApply \/ EnumBack

SpecEnum == Init /\ [][EnumNext]_vars

\* C26: starting from any variant of PatternType (19), PaletteType (16) or ColorMode
\* (10), n applications of next, or of previous, give a variant of the same type, and
\* give back the start exactly when n is a multiple of the number of variants; next
\* then previous, and previous then next, give back the start.
C26_CyclicPermutation ==
    /\ Cardinality(PatternTypes) = 19
    /\ Cardinality(PaletteTypes) = 16
    /\ Cardinality(ColorModes) = 10
    /\ last_call.op \in {"next", "previous"} =>
          /\ last_call.ret \in VariantsOf(last_call.args[1])
          /\ (last_call.ret = last_call.args[1])
                <=> (last_call.args[2] % Cardinality(VariantsOf(last_call.args[1])) = 0)
    /\ last_call.op \in {"next_previous", "previous_next"} =>
          last_call.ret = last_call.args[1]

\* next has been applied 16 times to PaletteType::Dots, through the arms where the
\* order of next leaves the order of declaration, and is back at Dots.
C26_Witness ==
    /\ last_call.op = "next"
    /\ last_call.args = <<Pal("Dots"), 16>>
    /\ last_call.ret = Pal("Dots")

(***************************************************************************)
(* The transition log over a long run: the director is updated once every  *)
(* 8 s with a loud, fast input, so that every update executes a transition *)
(* and the log fills up.                                                   *)
(***************************************************************************)
\* The cadence of the updates, in ms.
LogTickMs == 8000
\* The clock of SpecLog stops after this many steps.
MaxLogTicks == 23

\* bpm 150, energy 0.9: Energetic, and an energy spike
LogInput == [bpm |-> 150, energy |-> 9, bass |-> 5, treble |-> 5]

LogAdvance ==
    /\ last_call.op # "advance"
    /\ now + LogTickMs <= MaxLogTicks * LogTickMs
    /\ now' = now + LogTickMs
    /\ last_call' = Call("advance", <<>>, <<>>)
    /\ UNCHANGED <<engineVars, morpherVars, audioVars, pipelineVars>>

LogUpdate ==
    /\ last_call.op = "advance"
    /\ \E h \in 0..(NumHash - 1) :
          /\ update_audio_analysis(LogInput.bpm, LogInput.energy, FALSE, LogInput.bass,
                                   LogInput.treble, 0, h)
          /\ last_call' = Call("update_audio_analysis", <<>>,
                               update_audio_analysis_ret(LogInput.bpm, LogInput.energy,
                                                         FALSE, LogInput.bass,
                                                         LogInput.treble, 0, h))
    /\ UNCHANGED <<now, morpherVars, audioVars, pipelineVars>>

LogNext == LogAdvance \/ LogUpdate

SpecLog == Init /\ [][LogNext]_vars

\* A step in which initiate_transition ran: an update_audio_analysis call that found no
\* transition in progress after update_transition_state and left one in progress
Executed ==
    /\ last_call'.op = "update_audio_analysis"
    /\ ~update_transition_state.transition_in_progress
    /\ transition_in_progress'

\* C25: the log never holds more than 20 records; a step that executes a transition
\* appends one record, whose from_pattern and from_palette are the configuration before
\* the step and whose to_pattern and to_palette the configuration after it, behind the
\* records already there, unchanged and in order, less the oldest when there were 20;
\* any other step leaves the log as it is.
C25_LogAppendOnlyBounded ==
    [][ /\ Len(transition_history') <= TransitionHistoryCap
        /\ Executed =>
              /\ transition_history' # <<>>
              /\ Last(transition_history').from_pattern = current_pattern
              /\ Last(transition_history').to_pattern = current_pattern'
              /\ Last(transition_history').from_palette = current_palette
              /\ Last(transition_history').to_palette = current_palette'
              /\ SubSeq(transition_history', 1, Len(transition_history') - 1)
                    = IF Len(transition_history) < TransitionHistoryCap
                      THEN transition_history
                      ELSE Tail(transition_history)
        /\ ~Executed => transition_history' = transition_history ]_vars

\* The 21st transition has just been executed: the log holds 20 records and the record
\* of the first transition, made at the first update, is no longer its head.
C25_Witness ==
    /\ JustTransitioned
    /\ Len(transition_history) = TransitionHistoryCap
    /\ transition_history[1].timestamp = 2 * LogTickMs
    /\ now = (TransitionHistoryCap + 1) * LogTickMs

(***************************************************************************)
(* Mood classification: the director fed inputs on both sides of every     *)
(* threshold of detect_mood.                                               *)
(***************************************************************************)
\* The cadence of the updates, in ms.
MoodTickMs == 4000
\* The clock of SpecMood stops after this many steps.
MaxMoodTicks == 3

\* bpm at and around 80, 100 and 140
MoodBpms == {79, 80, 100, 101, 139, 140, 141}
\* energy at and around 0.3, 0.5 and 0.7, in tenths
MoodEnergies == {2, 3, 5, 6, 7, 8}
\* bass at and above 0.6, treble at and above 0.7, in tenths
MoodBasses == {6, 7}
MoodTrebles == {7, 8}

MoodAdvance ==
    /\ now + MoodTickMs <= MaxMoodTicks * MoodTickMs
    /\ now' = now + MoodTickMs
    /\ last_call' = Call("advance", <<>>, <<>>)
    /\ UNCHANGED <<engineVars, morpherVars, audioVars, pipelineVars>>

\* The mid band, which detect_mood ignores, is 0.5
MoodUpdate ==
    /\ \E b \in MoodBpms, energy \in MoodEnergies, bass \in MoodBasses,
          treble \in MoodTrebles :
          /\ update_audio_analysis(b, energy, FALSE, bass, treble,
                                   TransitionProbabilityMilli, 0)
          /\ last_call' = Call("update_audio_analysis",
                               <<b, energy, FALSE, <<bass, 5, treble>>>>,
                               update_audio_analysis_ret(b, energy, FALSE, bass, treble,
                                                         TransitionProbabilityMilli, 0))
    /\ UNCHANGED <<now, morpherVars, audioVars, pipelineVars>>

MoodNext == MoodAdvance \/ MoodUpdate

SpecMood == Init /\ [][MoodNext]_vars

\* C21: after update_audio_analysis(bpm, energy, _, (bass, _, treble)) the director
\* holds the mood given by the first of these that applies: Energetic if bpm > 140 and
\* energy > 0.7; Ambient if bpm < 80 and energy < 0.3; Rhythmic if bass > 0.6 and
\* 100 < bpm < 140; Chaotic if treble > 0.7 and energy > 0.5; Melodic.
C21_MoodFirstMatch ==
    last_call.op = "update_audio_analysis" =>
        LET in_bpm == last_call.args[1]
            in_energy == last_call.args[2]
            in_bass == last_call.args[4][1]
            in_treble == last_call.args[4][3]
            energetic == in_bpm > 140 /\ in_energy > 7
            ambient == in_bpm < 80 /\ in_energy < 3
            rhythmic == in_bass > 6 /\ in_bpm > 100 /\ in_bpm < 140
            chaotic == in_treble > 7 /\ in_energy > 5
        IN  /\ energetic => mood = "Energetic"
            /\ (~energetic /\ ambient) => mood = "Ambient"
            /\ (~energetic /\ ~ambient /\ rhythmic) => mood = "Rhythmic"
            /\ (~energetic /\ ~ambient /\ ~rhythmic /\ chaotic) => mood = "Chaotic"
            /\ (~energetic /\ ~ambient /\ ~rhythmic /\ ~chaotic) => mood = "Melodic"

\* An input that meets both the Rhythmic and the Chaotic test has just been classified
\* Rhythmic, in an update made after the first clock step.
C21_Witness ==
    /\ last_call.op = "update_audio_analysis"
    /\ last_call.args = <<101, 6, FALSE, <<7, 5, 8>>>>
    /\ mood = "Rhythmic"
    /\ now > 0

(***************************************************************************)
(* The two phases of the director, followed at a quarter of the transition *)
(* duration.                                                               *)
(***************************************************************************)
\* One clock step of SpecPhase, in ms.
PhaseTickMs == 500
\* The clock of SpecPhase stops after this many steps.
MaxPhaseTicks == 32

\* A loud, fast input (Energetic, energy spike) and a quiet Melodic one
PhaseInputs ==
    { [bpm |-> 150, energy |-> 9, bass |-> 5, treble |-> 5],
      [bpm |-> 120, energy |-> 5, bass |-> 5, treble |-> 5] }

PhaseAdvance ==
    /\ now + PhaseTickMs <= MaxPhaseTicks * PhaseTickMs
    /\ now' = now + PhaseTickMs
    /\ last_call' = Call("advance", <<>>, <<>>)
    /\ UNCHANGED <<engineVars, morpherVars, audioVars, pipelineVars>>

PhaseUpdate ==
    /\ \E in \in PhaseInputs, rnd \in RandomDraws :
          /\ update_audio_analysis(in.bpm, in.energy, FALSE, in.bass, in.treble, rnd, 0)
          /\ last_call' = Call("update_audio_analysis", <<>>,
                               update_audio_analysis_ret(in.bpm, in.energy, FALSE, in.bass,
                                                         in.treble, rnd, 0))
    /\ UNCHANGED <<now, morpherVars, audioVars, pipelineVars>>

PhaseNext == PhaseAdvance \/ PhaseUpdate

SpecPhase == Init /\ [][PhaseNext]_vars

\* C28 (as claimed): morph_factor stays within [0, 1]; an update made while a transition
\* is in progress and less than 2 s after its start leaves it in progress and starts
\* none; the first update made 2 s or more after the start sets morph_factor to 1.0 and
\* leaves the director Holding, with no transition in progress; an update made while
\* none is in progress leaves one in progress exactly when it starts one.
C28_ReturnsToHolding ==
    [][ /\ morph_factor' >= 0 /\ morph_factor' <= 1000
        /\ IF last_call'.op = "update_audio_analysis"
           THEN /\ (transition_in_progress
                     /\ now - transition_start_time < TransitionDurationMs)
                      => /\ transition_in_progress'
                         /\ ~Executed
                /\ (transition_in_progress
                     /\ now - transition_start_time >= TransitionDurationMs)
                      => /\ morph_factor' = 1000
                         /\ ~transition_in_progress'
                /\ ~transition_in_progress => (transition_in_progress' <=> Executed)
           ELSE transition_in_progress' = transition_in_progress ]_vars

\* C28 (amended): morph_factor stays within [0, 1] and transition_in_progress changes only in
\* update_audio_analysis.  An update made while a transition is in progress and less
\* than 2 s after its start leaves it in progress and starts none; the first update made
\* 2 s or more after the start sets morph_factor to 1.0 and ends it, so that
\* transition_in_progress is afterwards true only if that same update has started the
\* next transition; an update made while none is in progress leaves one in progress
\* exactly when it starts one.
C28_HoldingTransitioning ==
    [][ /\ morph_factor' >= 0 /\ morph_factor' <= 1000
        /\ IF last_call'.op = "update_audio_analysis"
           THEN /\ (transition_in_progress
                     /\ now - transition_start_time < TransitionDurationMs)
                      => /\ transition_in_progress'
                         /\ ~Executed
                         /\ transition_start_time' = transition_start_time
                         /\ transition_history' = transition_history
                /\ (transition_in_progress
                     /\ now - transition_start_time >= TransitionDurationMs)
                      => /\ morph_factor' = 1000
                         /\ transition_in_progress' <=> Executed
                /\ ~transition_in_progress => (transition_in_progress' <=> Executed)
                /\ Executed => transition_start_time' = now
           ELSE transition_in_progress' = transition_in_progress ]_vars

\* An update made exactly 2 s after a transition started has just ended it and left
\* the morph factor at 1.0.
C28_Witness ==
    /\ last_call.op = "update_audio_analysis"
    /\ ~transition_in_progress
    /\ morph_factor = 1000
    /\ transition_history # <<>>
    /\ now - Last(transition_history).timestamp = TransitionDurationMs

(***************************************************************************)
(* The beat-phrase trigger: the director updated every quarter of a second *)
(* by a tracker that reports a beat or none.                               *)
(***************************************************************************)
\* The cadence of the updates, in ms.
BeatTickMs == 250
\* The clock of SpecBeat stops after this many steps.
MaxBeatTicks == 16

\* The tempo reported with the beats
BeatBpms == {120, 200}

BeatAdvance ==
    /\ last_call.op # "advance"
    /\ now + BeatTickMs <= MaxBeatTicks * BeatTickMs
    /\ now' = now + BeatTickMs
    /\ last_call' = Call("advance", <<>>, <<>>)
    /\ UNCHANGED <<engineVars, morpherVars, audioVars, pipelineVars>>

\* A quiet Melodic input, with or without a beat; the random draw misses
BeatUpdate ==
    /\ last_call.op = "advance"
    /\ \E b \in BeatBpms, beat \in BOOLEAN :
          /\ update_audio_analysis(b, 5, beat, 5, 5, TransitionProbabilityMilli, 0)
          /\ last_call' = Call("update_audio_analysis", <<>>,
                               update_audio_analysis_ret(b, 5, beat, 5, 5,
                                                         TransitionProbabilityMilli, 0))
    /\ UNCHANGED <<now, morpherVars, audioVars, pipelineVars>>

BeatNext == BeatAdvance \/ BeatUpdate

SpecBeat == Init /\ [][BeatNext]_vars

\* The instants of the recorded beats less than 4 s old
RecentBeats == {beat_history[i] : i \in {j \in 1..Len(beat_history) :
                                            now - beat_history[j] < BeatWindowMs}}

\* At least 8 recorded beats lie within the last 4 s and the time since the latest of
\* them exceeds 80% of 8 beats of 60 / bpm seconds: ms * bpm > 0.8 * 8 * 60000
BeatPhraseBoundary ==
    /\ Cardinality({j \in 1..Len(beat_history) : now - beat_history[j] < BeatWindowMs}) >= 8
    /\ \E latest \in RecentBeats :
          /\ \A t \in RecentBeats : t <= latest
          /\ (now - latest) * bpm > 384000

\* C23 (as claimed): after an update the beat-phrase trigger qualifies exactly when at
\* least 8 recorded beats lie within the last 4 s and the time since the most recent
\* beat exceeds 80% of the length of 8 beats of 60 / bpm seconds.
C23_BeatPhraseTrigger ==
    last_call.op = "update_audio_analysis" =>
        (check_beat_transition(beat_history, bpm) <=> BeatPhraseBoundary)

(***************************************************************************)
(* The composed pipeline: update_audio called five times a second, first   *)
(* with loud music whose beats are 0.4 s and 0.2 s apart (150 BPM), then   *)
(* with silence.                                                           *)
(***************************************************************************)
\* The cadence of update_audio, in ms.
PipelineTickMs == 200
\* The clock of SpecPipeline stops after this many steps.
MaxPipelineTicks == 45
\* The music stops at this instant, in ms.
LoudMs == 2400

\* 100 ms of loud music starting with a beat, of loud music without one, of silence
LoudBeat == [blocks |-> <<0, 5, 0, 0, 0, 0, 0, 0>>, rms |-> 9, bass |-> 5, mid |-> 5, treble |-> 5]
LoudSustain == [blocks |-> <<0, 0, 0, 0, 0, 0, 0, 0>>, rms |-> 9, bass |-> 5, mid |-> 5, treble |-> 5]
Silence == [blocks |-> <<0, 0, 0, 0, 0, 0, 0, 0>>, rms |-> 0, bass |-> 0, mid |-> 0, treble |-> 0]

\* What the capture hands to update_audio at instant t: beats on two steps out of three
PipelineChunk(t) ==
    IF t >= LoudMs THEN Silence
    ELSE IF (t \div PipelineTickMs) % 3 = 1 THEN LoudSustain
    ELSE LoudBeat

PipelineAdvance ==
    /\ last_call.op # "advance"
    /\ now + PipelineTickMs <= MaxPipelineTicks * PipelineTickMs
    /\ now' = now + PipelineTickMs
    /\ last_call' = Call("advance", <<>>, <<>>)
    /\ UNCHANGED <<engineVars, morpherVars, audioVars, pipelineVars>>

EnableAutonomousMode ==
    /\ ~autonomous_mode
    /\ enable_autonomous_mode
    /\ last_call' = Call("enable_autonomous_mode", <<>>, <<>>)
    /\ UNCHANGED <<now, engineVars, morpherVars, audioVars, silent_since, captureVars,
                   startupVars>>

UpdateAudio ==
    /\ last_call.op = "advance"
    /\ \E samples \in {PipelineChunk(now)}, rnd \in RandomDraws, h \in 0..(NumHash - 1) :
          /\ update_audio(samples, rnd, h)
          /\ last_call' = Call("update_audio", <<samples>>, "Ok")
          /\ silent_since' =
                IF ~autonomous_mode \/ samples # Silence THEN -1
                ELSE IF silent_since >= 0 THEN silent_since
                ELSE IF mood = "Energetic" THEN now
                ELSE -1
    /\ UNCHANGED <<now, analyzerVars, since_drop, captureVars, startupVars>>

PipelineNext == PipelineAdvance \/ EnableAutonomousMode \/ UpdateAudio

SpecPipeline == Init /\ [][PipelineNext]_vars

\* C24 (as claimed): a transition executed by update_audio when the input has been silent
\* for more than 5 s after an Energetic mood, energy is below 0.2 and 10 s or more have
\* passed since the last recorded transition, selects for Ambient: a pattern of the
\* Ambient preferred set, the palette Smooth and the colour mode Cool.
C24_SilenceSelectsAmbient ==
    [][ ( /\ last_call'.op = "update_audio"
          /\ Transitioned
          /\ silent_since >= 0
          /\ now - silent_since > 5000
          /\ energy_level' < 2
          /\ MoodGateOpen )
        => ( /\ Contains(ambient_patterns, current_pattern')
             /\ current_palette' = Pal("Smooth")
             /\ current_color_mode' = Col("Cool") ) ]_vars

\* C27 (as claimed): an update_audio call in which the director executes a transition
\* leaves the morph engine morphing from the vacated pattern to the selected one, over
\* 2 s and under the Smooth law.
C27_TransitionStartsMorph ==
    [][ (last_call'.op = "update_audio" /\ Transitioned)
        => ( /\ morphing'
             /\ source_pattern' = current_pattern
             /\ target_pattern' = current_pattern'
             /\ morph_duration' = 2000
             /\ current_morph_type' = "Smooth" ) ]_vars

\* C31 (as claimed): within one morph session the progress returned by update_morph
\* never decreases from one call to the next (morph_progress holds the progress of the
\* previous call, or 0 right after start_morph), whatever bpm, energy and beat are given.
C31_ProgressNeverDecreases ==
    [][ (morphing /\ last_call'.op = "update_morph")
        => morph_progress' >= morph_progress ]_vars

\* C32: an update_morph call made while morphing, at or after twice the session's
\* duration since start_morph, leaves the morpher not morphing, for every law and every
\* bpm, energy in 0..1 and beat.
C32_SessionEndsInBudget ==
    [][ ( /\ morphing
          /\ last_call'.op = "update_morph"
          /\ Elapsed(morph_start_time) >= 2 * morph_duration )
        => ~morphing' ]_vars

\* C32 witness: an EnergyDriven session closed by a call with energy 0 made at twice its
\* duration or later.
C32_Witness ==
    /\ last_call.op = "update_morph"
    /\ last_call.args[2] = 0
    /\ last_call.ret = 1000
    /\ current_morph_type = "EnergyDriven"
    /\ ~morphing
    /\ morph_progress = 1000
    /\ Elapsed(morph_start_time) >= 2 * morph_duration

(***************************************************************************)
(* The tempo tracker called once every few seconds, each call a few frame  *)
(* times before a tick of the clock, so that the cutoff of a call can fall *)
(* between two onsets stamped by one earlier call.                         *)
(***************************************************************************)
\* The spacing of the calls, in ms.
WindowTickMs == 4000
\* The clock of SpecWindow stops after this many steps.
MaxWindowTicks == 3
\* A call is made up to this many frame times (1 / sample_rate s) before its tick.
MaxLeadFrames == 3

WindowAdvance ==
    /\ now + WindowTickMs <= MaxWindowTicks * WindowTickMs
    /\ now' = now + WindowTickMs
    /\ last_call' = Call("advance", <<>>, <<>>)
    /\ UNCHANGED <<engineVars, morpherVars, audioVars, pipelineVars>>

\* One call per tick; args holds the chunk and the instant Instant::now() reads
WindowProcess ==
    /\ last_call.op = "advance"
    /\ \E samples \in DetectorChunks, lead \in 0..MaxLeadFrames :
          /\ process_audio_at(samples, <<now, lead>>)
          /\ last_call' = Call("process_audio", <<samples, <<now, lead>>>>,
                               process_audio_ret(samples))
    /\ UNCHANGED <<now, engineVars, morpherVars, analyzerVars, since_drop, pipelineVars>>

WindowNext == WindowAdvance \/ WindowProcess

SpecWindow == Init /\ [][WindowNext]_vars

\* C33 (as claimed): after a process_audio call no instant left in the onset history is
\* more than analysis_window (8 s) before the instant of the call.
C33_NoStaleOnset ==
    last_call.op = "process_audio" =>
        \A i \in 1..Len(onset_history) :
            ~Earlier(onset_history[i],
                     <<last_call.args[2][1] - analysis_window, last_call.args[2][2]>>)

(***************************************************************************)
(* find_tempo_intervals on its own, applied to every short sequence of     *)
(* inter-onset intervals drawn from three values that are more than 20%    *)
(* apart.                                                                  *)
(***************************************************************************)
\* find_tempo_intervals is given at most this many intervals.
MaxIntervals == 5

\* 0.4 s, 0.5 s and 1 s, in microseconds
IntervalValues == {400000, 500000, 1000000}

IntervalSeqs == UNION {[1..n -> IntervalValues] : n \in 0..MaxIntervals}

FindTempoIntervals ==
    /\ \E intervals \in IntervalSeqs :
          last_call' = Call("find_tempo_intervals", <<intervals>>,
                            find_tempo_intervals(intervals))
    /\ UNCHANGED <<now, engineVars, morpherVars, audioVars, pipelineVars>>

ClusterNext == FindTempoIntervals

SpecCluster == Init /\ [][ClusterNext]_vars

\* The running means of the clusters that hold at least a quarter of the intervals
QuarterSupported(intervals) ==
    LET groups == group_intervals(<<>>, intervals)
        kept == SelectSeq(groups, LAMBDA g : 4 * g[2] >= Len(intervals))
    IN  [k \in 1..Len(kept) |-> kept[k][1]]

\* C34 (as claimed): find_tempo_intervals returns the clusters whose number of intervals
\* is at least one quarter of the number of all intervals, and no other.
C34_QuarterSupport ==
    last_call.op = "find_tempo_intervals" =>
        last_call.ret = QuarterSupported(last_call.args[1])

(***************************************************************************)
(* The capture boundary: the audio thread's callback writes chunks, the    *)
(* render thread polls get_samples, in any interleaving.                   *)
(***************************************************************************)
\* A callback is given at most this many samples.
MaxCallbackSamples == 4
\* get_samples is polled while the chunk in the buffer has been returned fewer times.
MaxDeliveries == 2

\* Interleaved samples of -1, 0 and 1, in tenths
CallbackData == UNION {[1..n -> {-10, 0, 10}] : n \in 1..MaxCallbackSamples}

InputCallback ==
    /\ \E data \in CallbackData :
          /\ input_callback(data)
          /\ last_call' = Call("input_callback", <<data>>, <<>>)
    /\ deliveries' = 0
    /\ UNCHANGED <<now, engineVars, morpherVars, audioVars, integrationVars, silent_since,
                   startupVars>>

GetSamples ==
    /\ deliveries < MaxDeliveries
    /\ get_samples
    /\ last_call' = Call("get_samples", <<>>, get_samples_ret)
    /\ deliveries' = IF capture_buffer = <<>> THEN deliveries ELSE deliveries + 1
    /\ UNCHANGED <<now, engineVars, morpherVars, audioVars, integrationVars, silent_since,
                   startupVars>>

CaptureNext == InputCallback \/ GetSamples

SpecCapture == Init /\ [][CaptureNext]_vars

\* C35 (as claimed): the chunk written by one callback is returned by at most one
\* get_samples call.
C35_ChunkConsumedOnce ==
    deliveries <= 1

(***************************************************************************)
(* The director updated once every 8 s, the shortest spacing at which it   *)
(* can execute a transition at every update, under every mood.             *)
(***************************************************************************)
\* The spacing of the updates, in ms.
SelectTickMs == 8000
\* The clock of SpecSelect stops after this many steps.
MaxSelectTicks == 5

\* One input per mood
SelectInputs ==
    { [bpm |-> 150, energy |-> 9, bass |-> 5, treble |-> 5],    \* Energetic
      [bpm |-> 70,  energy |-> 1, bass |-> 5, treble |-> 5],    \* Ambient
      [bpm |-> 120, energy |-> 5, bass |-> 8, treble |-> 5],    \* Rhythmic
      [bpm |-> 120, energy |-> 6, bass |-> 5, treble |-> 8],    \* Chaotic
      [bpm |-> 120, energy |-> 5, bass |-> 5, treble |-> 5] }   \* Melodic

SelectAdvance ==
    /\ last_call.op # "advance"
    /\ now + SelectTickMs <= MaxSelectTicks * SelectTickMs
    /\ now' = now + SelectTickMs
    /\ last_call' = Call("advance", <<>>, <<>>)
    /\ UNCHANGED <<engineVars, morpherVars, audioVars, pipelineVars>>

\* The random trigger's draw is below transition_probability or not
SelectUpdate ==
    /\ last_call.op = "advance"
    /\ \E in \in SelectInputs, rnd \in RandomDraws, h \in 0..(NumHash - 1) :
          /\ update_audio_analysis(in.bpm, in.energy, FALSE, in.bass, in.treble, rnd, h)
          /\ last_call' = Call("update_audio_analysis", <<>>,
                               update_audio_analysis_ret(in.bpm, in.energy, FALSE, in.bass,
                                                         in.treble, rnd, h))
    /\ UNCHANGED <<now, morpherVars, audioVars, pipelineVars>>

SelectNext == SelectAdvance \/ SelectUpdate

SpecSelect == Init /\ [][SelectNext]_vars

\* C36: the pattern a transition selects is in the preferred set of the mood the update
\* has just stored, and that set is not entirely under cooldown when it is consulted.
C36_SelectedIsPreferred ==
    [][ Transitioned =>
          /\ Contains(preferred_patterns(mood'), current_pattern')
          /\ \E p \in SeqRange(preferred_patterns(mood')) :
                ~CoolingDown(pattern_blacklist, p) ]_vars

\* C36 witness: a transition has just selected the last pattern of its mood's preferred
\* set that was not under cooldown: all of the set is cooling down now.
C36_Witness ==
    /\ JustTransitioned
    /\ Len(transition_history) >= 4
    /\ Contains(preferred_patterns(mood), current_pattern)
    /\ \A p \in SeqRange(preferred_patterns(mood)) : CoolingDown(pattern_blacklist, p)

\* C37 (as claimed): a palette with no entry younger than the cooldown in the palette
\* blacklist is among the palettes get_available_palettes returns, whatever the pattern
\* blacklist holds.
C37_PaletteCooldownOnly ==
    \A p \in SeqRange(all_palettes) :
        ~CoolingDown(palette_blacklist, p) => Contains(get_available_palettes, p)

(***************************************************************************)
(* The startup sequence driven as the application's loop drives it: one    *)
(* update per step of the clock, given no samples, silence or a beat.      *)
(***************************************************************************)
\* The spacing of the updates, in ms.
StartupTickMs == 2000
\* The clock of the startup specifications stops after this many steps.
MaxStartupTicks == 12
\* A chunk with a beat is given while the onset history is shorter than this.
MaxStartupOnsets == 4

EmptyChunk == [blocks |-> <<>>, rms |-> 0, bass |-> 0, mid |-> 0, treble |-> 0]

\* No samples are given once a beat has been heard
StartupChunks ==
    {Silence}
    \cup (IF onset_history = <<>> THEN {EmptyChunk} ELSE {})
    \cup (IF Len(onset_history) < MaxStartupOnsets THEN {LoudBeat} ELSE {})

StartupAdvance ==
    /\ last_call.op # "advance"
    /\ now + StartupTickMs <= MaxStartupTicks * StartupTickMs
    /\ now' = now + StartupTickMs
    /\ last_call' = Call("advance", <<>>, <<>>)
    /\ UNCHANGED <<engineVars, morpherVars, audioVars, pipelineVars>>

StartupUpdate ==
    /\ last_call.op = "advance"
    /\ \E samples \in StartupChunks, rnd \in RandomDraws, h \in 0..(NumHash - 1) :
          /\ startup_update(samples, rnd, h)
          /\ last_call' = Call("update", <<samples>>, [phase |-> current_phase'])
    /\ UNCHANGED <<now, morpherVars, analyzerVars, since_drop, integrationVars,
                   silent_since, captureVars>>

StartupNext == StartupAdvance \/ StartupUpdate

SpecStartup == Init /\ [][StartupNext]_vars

\* Time advances and update keeps being called
SpecStartupLive ==
    SpecStartup /\ WF_vars(StartupAdvance) /\ WF_vars(StartupUpdate)

\* C38 (as claimed): under repeated updates with advancing time is_startup_complete()
\* eventually becomes true, whether audio is detected or not.
C38_StartupCompletes ==
    <>is_startup_complete

\* C39 (as claimed): when a transition, and with it add_to_blacklist, has been executed,
\* every entry of the pattern blacklist and of the palette blacklist is younger than the
\* cooldown.
C39_BlacklistCleaned ==
    [][ Transitioned =>
          /\ \A k \in DOMAIN pattern_blacklist' :
                now - pattern_blacklist'[k] < BlacklistDurationMs
          /\ \A k \in DOMAIN palette_blacklist' :
                now - palette_blacklist'[k] < BlacklistDurationMs ]_vars

\* C40: analyze on an empty chunk leaves the extractor as it was: band peaks, previous
\* bass, beat pulse, the bass and energy histories and the drop cooldown.
C40_EmptyChunkNoEffect ==
    [][ (last_call'.op = "analyze" /\ last_call'.args[1].len = 0)
        => UNCHANGED analyzerVars ]_vars

\* C40 witness: an empty chunk has just been analyzed with the band peaks up, both
\* histories filled and the drop cooldown running.
C40_Witness ==
    /\ last_call.op = "analyze"
    /\ last_call.args[1].len = 0
    /\ bass_peak > 0 /\ mid_peak > 0 /\ treble_peak > 0
    /\ Len(bass_history) >= 3
    /\ Len(energy_history) >= 3
    /\ drop_cooldown > 0

====
